---- MODULE Spec2Model ----
(***************************************************************************)
(* Model of the nexus-harvester core: the indexing service that fans a     *)
(* document's chunks out to its backends, the token bucket, the rate       *)
(* limiter with its middleware, and the document processor that cuts a     *)
(* document into chunks.  Each component has its own specification over    *)
(* its own group of variables; the other groups stay at their constructed  *)
(* values.                                                                 *)
(***************************************************************************)
EXTENDS Integers, Sequences, FiniteSets, TLC

VARIABLES
    \* ---- IndexingService (indexing/indexing_service.py) ----
    use_qdrant_dev,   \* self.use_qdrant_dev
    qdrant_client,    \* TRUE iff self.qdrant_client is a (truthy) client object
    ipc,              \* position of the current index_chunks call
    iargs,            \* arguments of the current index_chunks call
    tstate,           \* state of each of the three gathered tasks
    tresult,          \* what each gathered task returned or raised
    calls,            \* number of client write calls started, per client
    zep_session,      \* session id handed to zep_client.store_memory
    iret,             \* what index_chunks returned (or the error it raised)
    \* ---- TokenBucket, single caller (utils/rate_limiting.py) ----
    rate,             \* self._rate, in token units per tick
    capacity,         \* self._capacity, in whole tokens
    tokens,           \* self._tokens, in token units
    last_refill,      \* self._last_refill
    now,              \* time.monotonic()
    last,             \* the last call made on the bucket and what it returned
    \* ---- TokenBucket, concurrent callers ----
    lock,             \* owner of self._lock (0: free)
    tpc,              \* position of each thread inside consume
    treq,             \* the tokens argument of each thread's call
    tlocal,           \* the value of self._tokens a thread loaded for `-=`
    tret,             \* what each thread's last consume returned
    granted_sum,      \* token units granted so far, over all threads
    \* ---- RateLimiter and RateLimitMiddleware ----
    buckets,          \* self._buckets: client id -> bucket, or no bucket
    chk,              \* the last check_rate_limit call and how it ended
    streak,           \* per client: single-token checks made so far, all in
                      \* the instant its bucket was created (-1: no such run)
    mw,               \* the request in the middleware and its response
    \* ---- RateLimiter, concurrent callers ----
    lim_lock,         \* owner of the limiter's self._lock (0: free)
    lthr,             \* each thread's position inside check_rate_limit
    bucket_of,        \* self._buckets: client id -> TokenBucket object (0: none)
    objects,          \* the TokenBucket objects created so far
    \* ---- _get_client_identifier (middleware/rate_limiting.py) ----
    idents,           \* the last two requests identified, newest first
    \* ---- DocumentProcessor (processing/document_processor.py) ----
    processor,        \* self.chunk_size, self.chunk_overlap, self.max_chunks_per_doc
    content_length,   \* len(content) of the current process_document call
    start,            \* the loop's start offset
    chunk_index,      \* the loop's chunk_index
    out_chunks,       \* the list `chunks` built by the loop
    ppc,              \* position of the process_document call
    uuid_seq,         \* uuid4() values drawn since the content was first processed
    prev_chunks,      \* what the previous call on the same content returned
    runs,             \* calls made on the current content
    \* ---- ProcessingParameters(...) and DocumentProcessor(...) ----
    ctor,             \* the last construction and how it ended
    instance,         \* a ProcessingParameters object and the last assignment to it
    \* ---- ingest_document and process_and_index_document (api/ingest.py) ----
    job_store,        \* _job_store: job id -> {"status", "result"}
    writes,           \* every update_job_status call so far, in order
    task,             \* the background task and what it has called so far
    resp,             \* what the last ingest_document call answered
    job_ids           \* job ids drawn so far

idxVars == <<use_qdrant_dev, qdrant_client, ipc, iargs, tstate, tresult, calls,
             zep_session, iret>>
bktVars == <<rate, capacity, tokens, last_refill, now, last>>
concVars == <<lock, tpc, treq, tlocal, tret, granted_sum>>
limVars == <<buckets, chk, streak, mw>>
lconVars == <<lim_lock, lthr, bucket_of, objects>>
docVars == <<processor, content_length, start, chunk_index, out_chunks, ppc,
             uuid_seq, prev_chunks, runs>>
parVars == <<ctor, instance>>
jobVars == <<job_store, writes, task, resp, job_ids>>
vars == <<idxVars, bktVars, concVars, limVars, lconVars, idents, docVars,
          parVars, jobVars>>

\* What the actions of one component leave alone: the other components.
IdxFrame == UNCHANGED <<bktVars, concVars, limVars, lconVars, idents, docVars,
        parVars, jobVars>>
BktFrame == UNCHANGED <<idxVars, concVars, limVars, lconVars, idents, docVars,
        parVars, jobVars>>
ConcFrame == UNCHANGED <<idxVars, last, limVars, lconVars, idents, docVars,
        parVars, jobVars>>
LimFrame ==
    UNCHANGED <<idxVars, rate, capacity, tokens, last_refill, last, concVars,
                lconVars, idents, docVars, parVars, jobVars>>
LconFrame == UNCHANGED <<idxVars, bktVars, concVars, limVars, idents, docVars,
        parVars, jobVars>>
IdentFrame == UNCHANGED <<idxVars, bktVars, concVars, limVars, lconVars, docVars,
        parVars, jobVars>>
DocFrame ==
    UNCHANGED <<idxVars, bktVars, concVars, limVars, lconVars, idents, parVars, jobVars>>
ParFrame ==
    UNCHANGED <<idxVars, bktVars, concVars, limVars, lconVars, idents, docVars,
                jobVars>>
JobFrame ==
    UNCHANGED <<idxVars, bktVars, concVars, limVars, lconVars, idents, docVars,
                parVars>>

(***************************************************************************)
(* Bounds                                                                  *)
(***************************************************************************)
MaxDocs == 2          \* document ids 1..MaxDocs
MaxChunks == 2        \* a call carries 0..MaxChunks chunks
MaxCapacity == 3      \* bucket capacities 1..MaxCapacity (whole tokens)
MaxRate == 2          \* refill rates 1..MaxRate (token units per tick)
MaxTime == 4          \* the monotonic clock runs over 0..MaxTime
MaxTokens == 4        \* consume is called with -1..MaxTokens
Scale == 2            \* token units per whole token (tokens is a float)
NThreads == 2         \* threads calling consume on one bucket
MaxConcTokens == 2    \* the concurrent callers ask for 0..MaxConcTokens tokens
MaxLimCapacity == 2   \* the limiter's bucket_size is in 1..MaxLimCapacity
MaxLimTime == 1       \* the limiter's clock runs over 0..MaxLimTime
MaxResets == 1        \* reset is called while at most MaxResets buckets were made
SizeSpread == 1       \* chunk sizes ChunkSizeMin..ChunkSizeMin + SizeSpread
MaxK == 3             \* max_chunks_per_doc is in 1..MaxK
MaxContent == 320     \* documents of 0..MaxContent characters
Margin == 1           \* constructor arguments within Margin of each limit
MaxJobs == 2          \* job ids 1..MaxJobs

Min(a, b) == IF a <= b THEN a ELSE b

(***************************************************************************)
(* Python values that travel through asyncio.gather and _process_result    *)
(***************************************************************************)
PyNone == [type |-> "None"]
PyDict(d) == [type |-> "dict", d |-> d]
PyExc(m) == [type |-> "Exception", msg |-> m]

\* JSON objects a backend answers with (response.json()).
Payloads == {[status |-> "success", count |-> 3], [status |-> "indexed", count |-> 3]}
\* str(e) of the errors a backend write raises.
ErrMsgs == {"Zep connection error", "timeout"}

Tasks == {"zep", "mem0", "qdrant"}     \* zep_task, mem0_task, qdrant_task
Outcomes == {PyDict(p) : p \in Payloads} \cup {PyExc(m) : m \in ErrMsgs}

NoSession == ""                         \* session_id None (or empty): falsy
Sessions == {NoSession, "custom-session-123"}

\* session_id or f"doc-{doc_id}"
SessionFor(session_id, doc_id) ==
    IF session_id # NoSession THEN session_id ELSE "doc-" \o ToString(doc_id)

\* The skip record of _index_to_qdrant.
QdrantSkipped == [status |-> "skipped", reason |-> "No Qdrant client configured"]

\* isinstance(result, Exception)
IsException(result) == result.type = "Exception"

\* _process_result reporting a fixed text in place of str(result).
ProcessResultGenericError(result) ==
    IF IsException(result)
    THEN PyDict([error |-> "Indexing operation failed", status |-> "failed"])
    ELSE result

\* _process_result: an exception becomes a failed record, anything else is
\* returned as it is.
ProcessResult(result) ==
    IF IsException(result)
    THEN PyDict([error |-> result.msg, status |-> "failed"])
    ELSE result

\* The backends dict with the optional entry keyed on the outcome instead of
\* on the flag.
BuildBackendsDropFailed(results, useQdrant) ==
    LET keys == {"zep", "mem0"} \cup
                (IF useQdrant /\ ~IsException(results["qdrant"]) THEN {"qdrant"} ELSE {})
    IN  [k \in keys |-> ProcessResult(results[k])]

\* The backends dict built from the gathered results (results[0..2]).
BuildBackends(results, useQdrant) ==
    LET keys == {"zep", "mem0"} \cup (IF useQdrant THEN {"qdrant"} ELSE {})
    IN  [k \in keys |-> ProcessResult(results[k])]

\* pydantic validation of backends: Dict[str, Dict[str, Any]].
BackendsValid(backends) == \A k \in DOMAIN backends : backends[k].type = "dict"

\* IndexingResult(doc_id=..., chunk_count=..., backends=...): the model object,
\* or the ValidationError its construction raises.
IndexingResult(doc_id, chunk_count, backends) ==
    IF BackendsValid(backends)
    THEN [raised |-> FALSE, doc_id |-> doc_id, chunk_count |-> chunk_count,
          backends |-> [k \in DOMAIN backends |-> backends[k].d]]
    ELSE [raised |-> TRUE, error |-> "ValidationError"]

NoCall == [doc_id |-> 0, chunks |-> 0, session_id |-> NoSession]
NoReturn == [raised |-> FALSE, doc_id |-> 0, chunk_count |-> 0, backends |-> <<>>]

\* A gather that stops waiting at the first child that raises.
GatherReadyFirstException ==
    \/ \A t \in Tasks : tstate[t] = "done"
    \/ \E t \in Tasks : tstate[t] = "done" /\ IsException(tresult[t])

\* asyncio.gather(..., return_exceptions=True) completes when every child has
\* finished, whether it returned or raised.
GatherReady == \A t \in Tasks : tstate[t] = "done"

\* gather without return_exceptions: the first exception among the children
\* is raised into the awaiting index_chunks.
GatherResultPropagate(results) ==
    LET failed == {t \in Tasks : IsException(results[t])}
    IN  IF failed = {}
        THEN [raised |-> FALSE, results |-> results]
        ELSE [raised |-> TRUE, results |-> results]

\* What `await asyncio.gather(..., return_exceptions=True)` evaluates to: the
\* list of results, exceptions included as values; it raises nothing.
GatherResult(results) == [raised |-> FALSE, results |-> results]

\* index_chunks up to its await: derive the session id, create the three
\* coroutines and hand them to asyncio.gather, which schedules them as tasks.
IndexCall(doc_id, chunks, session_id) ==
    /\ ipc \in {"idle", "returned"}
    /\ ipc' = "gathering"
    /\ iargs' = [doc_id |-> doc_id, chunks |-> chunks,
                 session_id |-> SessionFor(session_id, doc_id)]
    /\ tstate' = [t \in Tasks |-> "scheduled"]
    /\ tresult' = [t \in Tasks |-> PyNone]
    /\ calls' = [t \in Tasks |-> 0]
    /\ zep_session' = NoSession
    /\ iret' = NoReturn
    /\ UNCHANGED <<use_qdrant_dev, qdrant_client>>
    /\ IdxFrame

\* _index_to_zep / _index_to_mem0 run up to the await of the client call.
ClientTaskStart(t) ==
    /\ t \in {"zep", "mem0"}
    /\ tstate[t] = "scheduled"
    /\ tstate' = [tstate EXCEPT ![t] = "awaiting"]
    /\ calls' = [calls EXCEPT ![t] = @ + 1]
    /\ zep_session' = IF t = "zep" THEN iargs.session_id ELSE zep_session
    /\ UNCHANGED <<use_qdrant_dev, qdrant_client, ipc, iargs, tresult, iret>>
    /\ IdxFrame

\* A skip test that never skips.
NoQdrantClientIgnored == FALSE

\* `if not self.qdrant_client` in _index_to_qdrant.
NoQdrantClient == ~qdrant_client

\* The third task: _index_to_qdrant when the dev flag is set (skip record when
\* there is no client, else the client call), asyncio.sleep(0) otherwise.
ThirdTaskStart ==
    /\ tstate["qdrant"] = "scheduled"
    /\ IF use_qdrant_dev /\ NoQdrantClient
       THEN /\ tstate' = [tstate EXCEPT !["qdrant"] = "done"]
            /\ tresult' = [tresult EXCEPT !["qdrant"] = PyDict(QdrantSkipped)]
            /\ UNCHANGED calls
       ELSE /\ tstate' = [tstate EXCEPT !["qdrant"] = "awaiting"]
            /\ calls' = [calls EXCEPT !["qdrant"] = IF use_qdrant_dev THEN @ + 1 ELSE @]
            /\ UNCHANGED tresult
    /\ UNCHANGED <<use_qdrant_dev, qdrant_client, ipc, iargs, zep_session, iret>>
    /\ IdxFrame

\* A client write finishes: it returns the backend's JSON object or raises.
ClientTaskFinish(t, outcome) ==
    /\ tstate[t] = "awaiting"
    /\ t = "qdrant" => use_qdrant_dev
    /\ tstate' = [tstate EXCEPT ![t] = "done"]
    /\ tresult' = [tresult EXCEPT ![t] = outcome]
    /\ UNCHANGED <<use_qdrant_dev, qdrant_client, ipc, iargs, calls, zep_session, iret>>
    /\ IdxFrame

\* asyncio.sleep(0) resumes and returns None.
SleepFinish ==
    /\ tstate["qdrant"] = "awaiting"
    /\ ~use_qdrant_dev
    /\ tstate' = [tstate EXCEPT !["qdrant"] = "done"]
    /\ tresult' = [tresult EXCEPT !["qdrant"] = PyNone]
    /\ UNCHANGED <<use_qdrant_dev, qdrant_client, ipc, iargs, calls, zep_session, iret>>
    /\ IdxFrame

\* gather completes; index_chunks resumes, normalises the results and returns
\* the IndexingResult (an exception leaving index_chunks is recorded in iret).
IndexReturn ==
    /\ ipc = "gathering"
    /\ GatherReady
    /\ LET g == GatherResult(tresult)
       IN  iret' = IF g.raised
                   THEN [raised |-> TRUE, error |-> "backend error"]
                   ELSE IndexingResult(iargs.doc_id, iargs.chunks,
                                       BuildBackends(g.results, use_qdrant_dev))
    /\ ipc' = "returned"
    /\ UNCHANGED <<use_qdrant_dev, qdrant_client, iargs, tstate, tresult, calls,
                   zep_session>>
    /\ IdxFrame

NextIndex ==
    \/ \E d \in 1..MaxDocs, n \in 0..MaxChunks, s \in Sessions : IndexCall(d, n, s)
    \/ \E t \in {"zep", "mem0"} : ClientTaskStart(t)
    \/ ThirdTaskStart
    \/ \E t \in Tasks, o \in Outcomes : ClientTaskFinish(t, o)
    \/ SleepFinish
    \/ IndexReturn

(***************************************************************************)
(* Claims about IndexingService.index_chunks (checked under SpecIndex)     *)
(***************************************************************************)
EnabledBackends == IF use_qdrant_dev THEN {"zep", "mem0", "qdrant"} ELSE {"zep", "mem0"}

\* C1: whatever each backend write does (return a JSON object or raise),
\* index_chunks returns an IndexingResult and raises nothing to its caller.
C1_NeverRaises == ipc = "returned" => ~iret.raised

\* A call has returned although both mandatory backends raised.
C1_Witness ==
    /\ ipc = "returned"
    /\ ~iret.raised
    /\ IsException(tresult["zep"])
    /\ IsException(tresult["mem0"])

\* C2: the backends map of the returned IndexingResult has exactly the keys
\* zep, mem0 and, iff the dev flag is set, qdrant, whichever writes failed.
C2_BackendKeys ==
    (ipc = "returned" /\ ~iret.raised) => DOMAIN iret.backends = EnabledBackends

\* A call has returned with the dev backend enabled and its write failed.
C2_Witness ==
    /\ ipc = "returned"
    /\ ~iret.raised
    /\ use_qdrant_dev
    /\ IsException(tresult["qdrant"])
    /\ "qdrant" \in DOMAIN iret.backends

\* C3: in the returned map, the slot of a backend whose write raised is
\* {status: "failed", error: <message of the error>}, and the slot of every
\* other enabled backend is exactly what that backend's write returned.
C3_FailureIsolation ==
    (ipc = "returned" /\ ~iret.raised) =>
        \A k \in EnabledBackends :
            /\ k \in DOMAIN iret.backends
            /\ IF IsException(tresult[k])
               THEN iret.backends[k] = [error |-> tresult[k].msg, status |-> "failed"]
               ELSE /\ tresult[k].type = "dict"
                    /\ iret.backends[k] = tresult[k].d

\* zep raised, mem0 and qdrant returned, and the call has returned.
C3_Witness ==
    /\ ipc = "returned"
    /\ ~iret.raised
    /\ use_qdrant_dev /\ qdrant_client
    /\ IsException(tresult["zep"])
    /\ tresult["mem0"] \in {PyDict(p) : p \in Payloads}
    /\ tresult["qdrant"] \in {PyDict(p) : p \in Payloads}
    /\ iret.backends["zep"].status = "failed"

\* The writes index_chunks is to make: zep and mem0 always, qdrant when the dev
\* flag is set and a client is configured.
WritesDue ==
    [t \in Tasks |-> IF t = "qdrant" /\ ~(use_qdrant_dev /\ qdrant_client) THEN 0 ELSE 1]

\* C4: index_chunks starts every enabled backend's write exactly once and
\* returns only after each of them has finished; a write that raises changes
\* nothing about the other writes (none is cancelled or kept from finishing).
C4_WaitsForAll ==
    /\ [](/\ \A t \in Tasks : calls[t] <= WritesDue[t]
          /\ ipc = "returned" =>
                /\ \A t \in Tasks : tstate[t] = "done"
                /\ calls = WritesDue)
    /\ [][\A t \in Tasks :
            (tstate[t] = "awaiting" /\ tstate'[t] = "done" /\ IsException(tresult'[t]))
                => \A u \in Tasks \ {t} : tstate'[u] = tstate[u] /\ tresult'[u] = tresult[u]]_vars

\* zep raised while mem0 was still being written, mem0 completed afterwards,
\* and the call has returned.
C4_Witness ==
    /\ ipc = "returned"
    /\ IsException(tresult["zep"])
    /\ tresult["mem0"] \in {PyDict(p) : p \in Payloads}
    /\ calls["zep"] = 1 /\ calls["mem0"] = 1

\* C5: with the dev flag set and no client, the qdrant slot is a "skipped"
\* record carrying a reason, no optional-backend call is made and the zep and
\* mem0 writes are still made; with the flag off no optional write is made.
C5_QdrantSkipped ==
    /\ (~use_qdrant_dev \/ ~qdrant_client) => calls["qdrant"] = 0
    /\ (ipc = "returned" /\ ~iret.raised /\ use_qdrant_dev /\ ~qdrant_client) =>
            /\ iret.backends["qdrant"].status = "skipped"
            /\ "reason" \in DOMAIN iret.backends["qdrant"]
            /\ calls["zep"] = 1 /\ calls["mem0"] = 1
    /\ (ipc = "returned" /\ ~iret.raised /\ ~use_qdrant_dev) =>
            "qdrant" \notin DOMAIN iret.backends

\* A call has returned with the dev flag set and no client configured.
C5_Witness ==
    /\ ipc = "returned"
    /\ ~iret.raised
    /\ use_qdrant_dev /\ ~qdrant_client
    /\ iret.backends["qdrant"] = QdrantSkipped
    /\ calls = [t \in Tasks |-> IF t = "qdrant" THEN 0 ELSE 1]

(***************************************************************************)
(* TokenBucket                                                             *)
(*                                                                         *)
(* Time is counted in clock ticks and tokens in units of 1/Scale token, so *)
(* that fractional token counts (tokens is a float) are represented: rate  *)
(* is in units per tick, a request of n tokens needs n * Scale units, and  *)
(* a wait time is the fraction num / den of a tick.                        *)
(***************************************************************************)
NoWait == [num |-> 0, den |-> 1]

\* _refill without the min(): tokens grow past the capacity.
RefillUncapped(b, t) ==
    [tokens |-> b.tokens + (t - b.last_refill) * rate, last_refill |-> t]

\* TokenBucket._refill at monotonic time t.
Refill(b, t) ==
    [tokens |-> Min(capacity * Scale, b.tokens + (t - b.last_refill) * rate),
     last_refill |-> t]

\* consume that hands out what is left when it cannot grant the request.
ConsumePartial(b, n, t) ==
    IF n <= 0
    THEN [bucket |-> b, raised |-> TRUE, granted |-> FALSE, wait |-> NoWait]
    ELSE LET rb == Refill(b, t)
         IN  IF rb.tokens >= n * Scale
             THEN [bucket |-> [rb EXCEPT !.tokens = @ - n * Scale],
                   raised |-> FALSE, granted |-> TRUE, wait |-> NoWait]
             ELSE [bucket |-> [rb EXCEPT !.tokens = 0],
                   raised |-> FALSE, granted |-> FALSE,
                   wait |-> [num |-> n * Scale - rb.tokens, den |-> rate]]

\* consume that grants only when strictly more than the request is there.
ConsumeStrict(b, n, t) ==
    IF n <= 0
    THEN [bucket |-> b, raised |-> TRUE, granted |-> FALSE, wait |-> NoWait]
    ELSE LET rb == Refill(b, t)
         IN  IF rb.tokens > n * Scale
             THEN [bucket |-> [rb EXCEPT !.tokens = @ - n * Scale],
                   raised |-> FALSE, granted |-> TRUE, wait |-> NoWait]
             ELSE [bucket |-> rb, raised |-> FALSE, granted |-> FALSE,
                   wait |-> [num |-> n * Scale - rb.tokens, den |-> rate]]

\* TokenBucket.consume(n) at monotonic time t, run without interruption: the
\* bucket afterwards, whether ValueError was raised, and the returned pair.
Consume(b, n, t) ==
    IF n <= 0
    THEN [bucket |-> b, raised |-> TRUE, granted |-> FALSE, wait |-> NoWait]
    ELSE LET rb == Refill(b, t)
         IN  IF rb.tokens >= n * Scale
             THEN [bucket |-> [rb EXCEPT !.tokens = @ - n * Scale],
                   raised |-> FALSE, granted |-> TRUE, wait |-> NoWait]
             ELSE [bucket |-> rb, raised |-> FALSE, granted |-> FALSE,
                   wait |-> [num |-> n * Scale - rb.tokens, den |-> rate]]

Bucket == [tokens |-> tokens, last_refill |-> last_refill]

NoCallYet ==
    [op |-> "init", n |-> 0, raised |-> FALSE, granted |-> FALSE, wait |-> NoWait,
     value |-> 0, at |-> 0, pre_tokens |-> 0, pre_refill |-> 0, after_denial |-> FALSE]

\* The previous call on the bucket was a consume denied at this very instant.
JustDenied == last.op = "consume" /\ ~last.raised /\ ~last.granted /\ last.at = now

\* bucket.consume(n) by the single caller.
BucketConsume(n) ==
    LET c == Consume(Bucket, n, now)
    IN  /\ tokens' = c.bucket.tokens
        /\ last_refill' = c.bucket.last_refill
        /\ last' = [op |-> "consume", n |-> n, raised |-> c.raised,
                    granted |-> c.granted, wait |-> c.wait, value |-> 0, at |-> now,
                    pre_tokens |-> tokens, pre_refill |-> last_refill,
                    after_denial |-> JustDenied]
        /\ UNCHANGED <<rate, capacity, now>>
        /\ BktFrame

\* bucket.tokens: the property refills and returns the count.
BucketTokens ==
    LET rb == Refill(Bucket, now)
    IN  /\ tokens' = rb.tokens
        /\ last_refill' = rb.last_refill
        /\ last' = [op |-> "tokens", n |-> 0, raised |-> FALSE, granted |-> FALSE,
                    wait |-> NoWait, value |-> rb.tokens, at |-> now,
                    pre_tokens |-> tokens, pre_refill |-> last_refill,
                    after_denial |-> FALSE]
        /\ UNCHANGED <<rate, capacity, now>>
        /\ BktFrame

\* The monotonic clock moves forward by d ticks.
Tick(d) ==
    /\ now + d <= MaxTime
    /\ now' = now + d
    /\ UNCHANGED <<rate, capacity, tokens, last_refill, last>>
    /\ BktFrame

NextBucket ==
    \/ \E n \in -1..MaxTokens : BucketConsume(n)
    \/ BucketTokens
    \/ \E d \in 1..MaxTime : Tick(d)

(***************************************************************************)
(* Claims about TokenBucket with one caller (checked under SpecBucket)     *)
(***************************************************************************)
\* The token count the bucket holds after the refill of the last call,
\* computed from the state the call found.
RefilledAtLast ==
    Min(capacity * Scale, last.pre_tokens + (last.at - last.pre_refill) * rate)

\* C6: after any sequence of consume calls, tokens reads and clock advances,
\* 0 <= tokens <= capacity, for the stored count and for the count read.
C6_TokensInRange ==
    /\ 0 <= tokens /\ tokens <= capacity * Scale
    /\ last.op = "tokens" => (0 <= last.value /\ last.value <= capacity * Scale)

\* A read of tokens after the clock ran long enough to overfill the bucket.
C6_Witness ==
    /\ last.op = "tokens"
    /\ last.pre_tokens < capacity * Scale
    /\ last.pre_tokens + (last.at - last.pre_refill) * rate > capacity * Scale
    /\ last.value = capacity * Scale

\* C7: a denied consume deducts nothing (the count right after it is the
\* refilled count of that instant), and a consume(m) that follows it at the
\* same instant with m <= that count is granted.
C7_DenialDeductsNothing ==
    /\ (last.op = "consume" /\ ~last.raised /\ ~last.granted /\ last.at = now)
          => tokens = RefilledAtLast
    /\ (last.op = "consume" /\ ~last.raised /\ last.after_denial
          /\ last.n * Scale <= last.pre_tokens) => last.granted

\* A consume granted right after a denial at the same instant.
C7_Witness ==
    /\ last.op = "consume"
    /\ last.after_denial
    /\ last.granted
    /\ last.pre_tokens < capacity * Scale

\* C8: consume(n) with n > 0 is granted exactly when the refilled count is at
\* least n; granted, it deducts exactly n and returns (true, 0); denied, it
\* returns (false, (n - tokens) / rate), a strictly positive wait; consume(n)
\* with n <= 0 raises the invalid-argument error.
C8_ConsumeContract ==
    last.op = "consume" =>
        /\ last.raised <=> last.n <= 0
        /\ ~last.raised =>
            /\ last.granted <=> RefilledAtLast >= last.n * Scale
            /\ last.granted =>
                  /\ tokens = RefilledAtLast - last.n * Scale
                  /\ last.wait.num = 0
            /\ ~last.granted =>
                  /\ last.wait = [num |-> last.n * Scale - RefilledAtLast, den |-> rate]
                  /\ last.wait.num > 0 /\ last.wait.den > 0

\* A consume granted with exactly the requested amount in the bucket, the
\* count having been refilled by elapsed time.
C8_Witness ==
    /\ last.op = "consume"
    /\ last.granted
    /\ last.at > last.pre_refill
    /\ last.pre_tokens < last.n * Scale
    /\ RefilledAtLast = last.n * Scale
    /\ tokens = 0

\* The previous call on the bucket was a consume that was denied, and the
\* wait it returned has elapsed since.
WaitedOut ==
    /\ last.op = "consume"
    /\ ~last.raised
    /\ ~last.granted
    /\ (now - last.at) * last.wait.den >= last.wait.num

\* C38: a consume(n) that follows a denied consume(n), with no other call on
\* the bucket in between and at least the returned wait later, is granted,
\* for every n > 0 and every capacity.
C38_GrantedAfterWait ==
    [][(WaitedOut /\ BucketConsume(last.n)) => last'.granted]_vars

(***************************************************************************)
(* TokenBucket.consume called from several threads                         *)
(***************************************************************************)
Threads == 1..NThreads

NoRet == [raised |-> FALSE, granted |-> FALSE, wait |-> NoWait]

\* A lock that excludes nobody.
LockAvailableAlways(t) == TRUE

\* self._lock is a threading.RLock: free, or already held by the caller.
LockAvailable(t) == lock \in {0, t}

\* consume(n) is entered: `if tokens <= 0: raise ValueError`.
CCall(t, n) ==
    /\ tpc[t] \in {"idle", "done"}
    /\ treq' = [treq EXCEPT ![t] = n]
    /\ IF n <= 0
       THEN /\ tpc' = [tpc EXCEPT ![t] = "done"]
            /\ tret' = [tret EXCEPT ![t] = [NoRet EXCEPT !.raised = TRUE]]
       ELSE /\ tpc' = [tpc EXCEPT ![t] = "acquire"]
            /\ tret' = [tret EXCEPT ![t] = NoRet]
    /\ UNCHANGED <<rate, capacity, tokens, last_refill, now, lock, tlocal, granted_sum>>
    /\ ConcFrame

\* `with self._lock:` is entered.
CAcquire(t) ==
    /\ tpc[t] = "acquire"
    /\ LockAvailable(t)
    /\ lock' = t
    /\ tpc' = [tpc EXCEPT ![t] = "refill"]
    /\ UNCHANGED <<rate, capacity, tokens, last_refill, now, treq, tlocal, tret, granted_sum>>
    /\ ConcFrame

\* self._refill()
CRefill(t) ==
    /\ tpc[t] = "refill"
    /\ LET rb == Refill(Bucket, now)
       IN  /\ tokens' = rb.tokens
           /\ last_refill' = rb.last_refill
    /\ tpc' = [tpc EXCEPT ![t] = "check"]
    /\ UNCHANGED <<rate, capacity, now, lock, treq, tlocal, tret, granted_sum>>
    /\ ConcFrame

\* `if self._tokens >= tokens:`; on the other branch the wait time is computed.
CCheck(t) ==
    /\ tpc[t] = "check"
    /\ IF tokens >= treq[t] * Scale
       THEN /\ tpc' = [tpc EXCEPT ![t] = "load"]
            /\ UNCHANGED tret
       ELSE /\ tpc' = [tpc EXCEPT ![t] = "release"]
            /\ tret' = [tret EXCEPT ![t] =
                          [raised |-> FALSE, granted |-> FALSE,
                           wait |-> [num |-> treq[t] * Scale - tokens, den |-> rate]]]
    /\ UNCHANGED <<rate, capacity, tokens, last_refill, now, lock, treq, tlocal, granted_sum>>
    /\ ConcFrame

\* `self._tokens -= tokens`, first half: the current count is loaded.
CLoad(t) ==
    /\ tpc[t] = "load"
    /\ tlocal' = [tlocal EXCEPT ![t] = tokens]
    /\ tpc' = [tpc EXCEPT ![t] = "store"]
    /\ UNCHANGED <<rate, capacity, tokens, last_refill, now, lock, treq, tret, granted_sum>>
    /\ ConcFrame

\* `self._tokens -= tokens`, second half: the difference is stored;
\* `return True, 0.0` follows.
CStore(t) ==
    /\ tpc[t] = "store"
    /\ tokens' = tlocal[t] - treq[t] * Scale
    /\ tlocal' = [tlocal EXCEPT ![t] = 0]
    /\ tret' = [tret EXCEPT ![t] = [raised |-> FALSE, granted |-> TRUE, wait |-> NoWait]]
    /\ granted_sum' = granted_sum + treq[t] * Scale
    /\ tpc' = [tpc EXCEPT ![t] = "release"]
    /\ UNCHANGED <<rate, capacity, last_refill, now, lock, treq>>
    /\ ConcFrame

\* The `with` block is left and consume returns.
CRelease(t) ==
    /\ tpc[t] = "release"
    /\ lock' = 0
    /\ tpc' = [tpc EXCEPT ![t] = "done"]
    /\ UNCHANGED <<rate, capacity, tokens, last_refill, now, treq, tlocal, tret, granted_sum>>
    /\ ConcFrame

NextConc ==
    \/ \E t \in Threads, n \in 0..MaxConcTokens : CCall(t, n)
    \/ \E t \in Threads : CAcquire(t)
    \/ \E t \in Threads : CRefill(t)
    \/ \E t \in Threads : CCheck(t)
    \/ \E t \in Threads : CLoad(t)
    \/ \E t \in Threads : CStore(t)
    \/ \E t \in Threads : CRelease(t)

\* C9: in every interleaving of concurrent consume calls with the clock
\* standing still, the tokens granted never exceed the tokens the bucket
\* started with, and the count is the initial count minus the granted sum
\* (no lost update, no double-spend).
C9_NoDoubleSpend ==
    /\ granted_sum <= capacity * Scale
    /\ tokens >= 0
    /\ tokens = capacity * Scale - granted_sum

\* Two threads raced for the last tokens: one was granted, the other was
\* denied although it had asked while the tokens were still there.
C9_Witness ==
    /\ \A t \in Threads : tpc[t] = "done"
    /\ \E t, u \in Threads :
          /\ t # u
          /\ tret[t].granted
          /\ ~tret[u].granted /\ ~tret[u].raised
          /\ treq[u] * Scale <= tokens + treq[t] * Scale
    /\ granted_sum > 0


(***************************************************************************)
(* RateLimiter and RateLimitMiddleware                                     *)
(*                                                                         *)
(* One clock tick is one second, so int(retry_after) is num \div den.      *)
(***************************************************************************)
\* The client identifiers of the model: one API key, one address.
ClientIds == {"api_key:k1", "ip:10.0.0.1"}

\* The requests sent through the middleware: a path, and where the client
\* can be read from ("" and <<>>: absent).  The X-Forwarded-For header is the
\* sequence of its comma-separated entries, an entry the sequence of its
\* pieces, " " being whitespace.
Paths == {<<"/test">>, <<"/docs", "/oauth2-redirect">>}
Requests ==
    [path : Paths, header_key : {"", "k1"}, query_key : {""},
     forwarded_for : {<< <<"10.0.0.1">>, <<" ", "10.0.0.2">> >>},
     host : {"10.0.0.9"}]

\* exclude_paths of add_rate_limiting when none are given.
ExcludePaths == {<<"/docs">>, <<"/redoc">>, <<"/openapi.json">>}

\* path.startswith(excluded)
StartsWith(path, prefix) ==
    Len(prefix) <= Len(path) /\ SubSeq(path, 1, Len(prefix)) = prefix

\* A middleware that excludes the listed paths only, not what lies below them.
IsExcludedExact(path) == path \in ExcludePaths

\* any(path.startswith(excluded) for excluded in self.exclude_paths)
IsExcluded(path) == \E e \in ExcludePaths : StartsWith(path, e)

\* str.strip() of a header entry: leading and trailing whitespace removed.
RECURSIVE Strip(_)
Strip(entry) ==
    IF entry = <<>> THEN <<>>
    ELSE IF Head(entry) = " " THEN Strip(Tail(entry))
    ELSE IF entry[Len(entry)] = " " THEN Strip(SubSeq(entry, 1, Len(entry) - 1))
    ELSE entry

\* The string an entry's pieces spell.
RECURSIVE Join(_)
Join(entry) == IF entry = <<>> THEN "" ELSE Head(entry) \o Join(Tail(entry))

\* An identifier that prefers the client's address to its API key.
ClientIdentifierAddressFirst(request) ==
    IF request.forwarded_for # <<>>
    THEN "ip:" \o Join(Strip(request.forwarded_for[1]))
    ELSE IF request.header_key # "" THEN "api_key:" \o request.header_key
    ELSE IF request.query_key # "" THEN "api_key:" \o request.query_key
    ELSE "ip:" \o (IF request.host # "" THEN request.host ELSE "unknown")

\* _get_client_identifier(request)
ClientIdentifier(request) ==
    IF request.header_key # "" THEN "api_key:" \o request.header_key
    ELSE IF request.query_key # "" THEN "api_key:" \o request.query_key
    ELSE IF request.forwarded_for # <<>>
         THEN "ip:" \o Join(Strip(request.forwarded_for[1]))
    ELSE "ip:" \o (IF request.host # "" THEN request.host ELSE "unknown")

\* The tokens arguments check_rate_limit is called with.
LimTokenArgs == {0, 1, 2}
\* check_rate_limit(client_id, tokens=1): the tokens argument when none is given.
DefaultTokens == 1

NoBucket == [present |-> FALSE, tokens |-> 0, last_refill |-> 0]

\* A bucket that starts out empty.
NewBucketEmpty(t) == [present |-> TRUE, tokens |-> 0, last_refill |-> t]

\* TokenBucket(rate=tokens_per_second, capacity=bucket_size) created at time t.
NewBucket(t) == [present |-> TRUE, tokens |-> capacity * Scale, last_refill |-> t]

\* RateLimiter._get_bucket: the client's bucket, created on first use.
GetBucket(bs, client_id, t) ==
    IF bs[client_id].present THEN bs[client_id] ELSE NewBucket(t)

\* A limiter whose clients all draw on the caller's quota: what the call
\* takes from its client's bucket it takes from every other bucket too.
CheckRateLimitShared(bs, client_id, n, t) ==
    LET b == GetBucket(bs, client_id, t)
        c == Consume([tokens |-> b.tokens, last_refill |-> b.last_refill], n, t)
        nb == [present |-> TRUE, tokens |-> c.bucket.tokens,
               last_refill |-> c.bucket.last_refill]
    IN  [buckets |-> [x \in ClientIds |-> nb],
         outcome |-> IF c.raised THEN "value_error"
                     ELSE IF c.granted THEN "ok" ELSE "limited",
         retry_after |-> c.wait,
         client_id |-> client_id]

\* A limiter whose error carries neither the wait time nor the client.
CheckRateLimitBareError(bs, client_id, n, t) ==
    LET b == GetBucket(bs, client_id, t)
        c == Consume([tokens |-> b.tokens, last_refill |-> b.last_refill], n, t)
        nb == [present |-> TRUE, tokens |-> c.bucket.tokens,
               last_refill |-> c.bucket.last_refill]
    IN  [buckets |-> [bs EXCEPT ![client_id] = nb],
         outcome |-> IF c.raised THEN "value_error"
                     ELSE IF c.granted THEN "ok" ELSE "limited",
         retry_after |-> NoWait,
         client_id |-> ""]

\* RateLimiter.check_rate_limit(client_id, n) at time t, run without
\* interruption: the buckets afterwards and how the call ended
\* ("ok", "limited": RateLimitError, "value_error": consume's ValueError).
CheckRateLimit(bs, client_id, n, t) ==
    LET b == GetBucket(bs, client_id, t)
        c == Consume([tokens |-> b.tokens, last_refill |-> b.last_refill], n, t)
        nb == [present |-> TRUE, tokens |-> c.bucket.tokens,
               last_refill |-> c.bucket.last_refill]
    IN  [buckets |-> [bs EXCEPT ![client_id] = nb],
         outcome |-> IF c.raised THEN "value_error"
                     ELSE IF c.granted THEN "ok" ELSE "limited",
         retry_after |-> c.wait,
         client_id |-> client_id]

\* The run of single-token checks a client has made in the instant its bucket
\* was created, after one more check of n tokens at time t.
StreakAfter(client_id, n, t) ==
    IF n # 1 THEN -1
    ELSE IF ~buckets[client_id].present THEN 1
    ELSE IF /\ streak[client_id] >= 1
            /\ streak[client_id] <= capacity
            /\ buckets[client_id].last_refill = t
         THEN streak[client_id] + 1
         ELSE -1

\* err_client: the client_id the RateLimitError carries ("": no error).
NoCheck == [client_id |-> "", n |-> 0, outcome |-> "none", retry_after |-> NoWait,
            err_client |-> "", source |-> "none"]
\* check: how the request's rate-limit check ended ("none": not checked);
\* handled: the endpoint handler has run; retry_after, remaining, limit: the
\* Retry-After, X-RateLimit-Remaining and X-RateLimit-Limit headers of the
\* response (-1: header not set).
NoRequest == [pc |-> "none", client_id |-> "", excluded |-> FALSE,
              check |-> "none", handled |-> FALSE, status |-> 0,
              retry_after |-> -1, remaining |-> -1, limit |-> -1]

\* The record of a check_rate_limit call that returned r.
CheckRecord(client_id, n, r, source) ==
    [client_id |-> client_id, n |-> n, outcome |-> r.outcome,
     retry_after |-> r.retry_after,
     err_client |-> IF r.outcome = "limited" THEN r.client_id ELSE "",
     source |-> source]

\* limiter.check_rate_limit(client_id, n) called directly.
LimCheck(client_id, n) ==
    LET r == CheckRateLimit(buckets, client_id, n, now)
    IN  /\ buckets' = r.buckets
        /\ chk' = CheckRecord(client_id, n, r, "direct")
        /\ streak' = [streak EXCEPT ![client_id] = StreakAfter(client_id, n, now)]
        /\ UNCHANGED <<now, mw>>
        /\ LimFrame

\* A reset that forgets every client, whichever one it was asked to reset.
ResetOneClearsAll(bs, client_id) == [c \in ClientIds |-> NoBucket]

\* reset(client_id): `elif client_id in self._buckets: del self._buckets[client_id]`
ResetOne(bs, client_id) ==
    IF bs[client_id].present THEN [bs EXCEPT ![client_id] = NoBucket] ELSE bs

\* reset(): `self._buckets.clear()`
ResetAll(bs) == [c \in ClientIds |-> NoBucket]

\* limiter.reset(client_id)
LimReset(client_id) ==
    /\ buckets' = ResetOne(buckets, client_id)
    /\ streak' = [c \in ClientIds |-> IF buckets'[c].present THEN streak[c] ELSE 0]
    /\ UNCHANGED <<now, chk, mw>>
    /\ LimFrame

\* limiter.reset()
LimResetAll ==
    /\ buckets' = ResetAll(buckets)
    /\ streak' = [c \in ClientIds |-> IF buckets'[c].present THEN streak[c] ELSE 0]
    /\ UNCHANGED <<now, chk, mw>>
    /\ LimFrame

\* A middleware that swallows the RateLimitError and goes on to the handler.
AdmitAlways(outcome) == TRUE

\* dispatch's try block: `await call_next(request)` is reached iff
\* check_rate_limit returned without raising RateLimitError.
Admit(outcome) == outcome # "limited"

\* int(e.retry_after): the wait time truncated to whole seconds.
IntSeconds(wait) == wait.num \div wait.den

\* RateLimitMiddleware.dispatch up to `await call_next(request)`: an excluded
\* path goes straight to the handler; otherwise the client is identified and
\* check_rate_limit(client_id) decides between the handler and the 429
\* response with its Retry-After and X-RateLimit-* headers.
Dispatch(request) ==
    /\ mw.pc \in {"none", "done"}
    /\ IF IsExcluded(request.path)
       THEN /\ mw' = [NoRequest EXCEPT !.pc = "handler", !.excluded = TRUE]
            /\ UNCHANGED <<buckets, chk, streak>>
       ELSE LET id == ClientIdentifier(request)
                r == CheckRateLimit(buckets, id, DefaultTokens, now)
            IN  /\ buckets' = r.buckets
                /\ chk' = CheckRecord(id, DefaultTokens, r, "middleware")
                /\ streak' = [streak EXCEPT ![id] = StreakAfter(id, DefaultTokens, now)]
                /\ mw' = IF Admit(r.outcome)
                         THEN [NoRequest EXCEPT !.pc = "handler", !.client_id = id,
                                                !.check = r.outcome]
                         ELSE [NoRequest EXCEPT !.pc = "done", !.client_id = id,
                                                !.check = r.outcome,
                                                !.status = 429,
                                                !.retry_after = IntSeconds(r.retry_after),
                                                !.remaining = 0,
                                                !.limit = capacity]
    /\ UNCHANGED now
    /\ LimFrame

\* call_next runs the handler and returns its response; for a rate-limited
\* path dispatch then reads the client's remaining tokens (through
\* _get_bucket and the tokens property) into the X-RateLimit-* headers.
DispatchReturn ==
    /\ mw.pc = "handler"
    /\ IF mw.excluded
       THEN /\ mw' = [mw EXCEPT !.pc = "done", !.handled = TRUE, !.status = 200]
            /\ UNCHANGED <<buckets, streak>>
       ELSE LET b == GetBucket(buckets, mw.client_id, now)
                rb == Refill([tokens |-> b.tokens, last_refill |-> b.last_refill], now)
            IN  /\ buckets' = [buckets EXCEPT ![mw.client_id] =
                                 [present |-> TRUE, tokens |-> rb.tokens,
                                  last_refill |-> rb.last_refill]]
                /\ streak' = [streak EXCEPT ![mw.client_id] =
                                 IF buckets[mw.client_id].present
                                    /\ buckets[mw.client_id].last_refill = now
                                 THEN @ ELSE -1]
                /\ mw' = [mw EXCEPT !.pc = "done", !.handled = TRUE,
                                    !.status = 200,
                                    !.remaining = rb.tokens \div Scale,
                                    !.limit = capacity]
    /\ UNCHANGED <<now, chk>>
    /\ LimFrame

\* The monotonic clock moves forward by d seconds.
LimTick(d) ==
    /\ now + d <= MaxLimTime
    /\ now' = now + d
    /\ UNCHANGED <<buckets, chk, streak, mw>>
    /\ LimFrame

NextLimiter ==
    \/ \E c \in ClientIds, n \in LimTokenArgs : LimCheck(c, n)
    \/ \E c \in ClientIds : LimReset(c)
    \/ LimResetAll
    \/ \E r \in Requests : Dispatch(r)
    \/ DispatchReturn
    \/ \E d \in 1..MaxLimTime : LimTick(d)

(***************************************************************************)
(* Claims about the RateLimiter (checked under SpecLimiter)                *)
(***************************************************************************)
\* C10: with bucket capacity N, the first N single-token requests a
\* previously unseen client makes within one instant are all admitted and
\* the (N+1)-th of that instant is denied with retry_after > 0; through the
\* middleware the denial is a 429 response carrying a Retry-After header.
C10_BurstThenDenied ==
    LET k == IF chk.client_id \in ClientIds THEN streak[chk.client_id] ELSE 0
    IN  /\ (chk.n = 1 /\ chk.outcome # "none" /\ k >= 1 /\ k <= capacity)
              => chk.outcome = "ok"
        /\ (chk.n = 1 /\ chk.outcome # "none" /\ k = capacity + 1) =>
              /\ chk.outcome = "limited"
              /\ chk.retry_after.num > 0 /\ chk.retry_after.den > 0
        /\ (chk.source = "middleware" /\ mw.client_id = chk.client_id) =>
              /\ chk.outcome = "limited" <=> mw.status = 429
              /\ mw.status = 429 => (mw.pc = "done" /\ mw.retry_after >= 0)

\* The (N+1)-th request of one instant went through the middleware and was
\* answered 429, the N before it having been admitted.
C10_Witness ==
    /\ capacity >= 2
    /\ chk.source = "middleware"
    /\ chk.outcome = "limited"
    /\ chk.client_id \in ClientIds
    /\ streak[chk.client_id] = capacity + 1
    /\ mw.client_id = chk.client_id
    /\ mw.pc = "done"
    /\ mw.status = 429

\* The limiter's buckets had no client but b ever made a request.
OnlyClient(b) == [c \in ClientIds |-> IF c = b THEN buckets[b] ELSE NoBucket]

\* A step in which client a's check_rate_limit call for n tokens runs,
\* directly or for a request in the middleware.
CheckStep(a, n) ==
    /\ chk'.client_id = a
    /\ chk'.n = n
    /\ \/ chk'.source = "direct" /\ LimCheck(a, n)
       \/ /\ chk'.source = "middleware"
          /\ n = DefaultTokens
          /\ \E r \in Requests :
                ~IsExcluded(r.path) /\ ClientIdentifier(r) = a /\ Dispatch(r)

C11_Step ==
    \A a \in ClientIds, n \in LimTokenArgs :
        CheckStep(a, n) =>
            /\ \A b \in ClientIds \ {a} : buckets'[b] = buckets[b]
            /\ LET alone == CheckRateLimit(OnlyClient(a), a, n, now)
               IN  /\ chk'.outcome = alone.outcome
                   /\ chk'.retry_after = alone.retry_after
                   /\ buckets'[a] = alone.buckets[a]

C11_FirstCheck ==
    \A b \in ClientIds :
        (chk.client_id = b /\ chk.n = 1 /\ streak[b] = 1) =>
            /\ chk.outcome = "ok"
            /\ buckets[b].present
            /\ buckets[b].tokens = (capacity - 1) * Scale

\* C11: a check_rate_limit call for client A, granted or denied, leaves every
\* other client's bucket as it was, and the call's result and effect on A's
\* own bucket are what they would be had no other client made a request; in
\* particular a client's first check is granted from a full bucket whatever
\* the other clients have used up.
C11_ClientIsolation == []C11_FirstCheck /\ [][C11_Step]_vars

\* Client a's bucket has just been emptied and client b's first check was
\* granted all the same.
C11_Witness ==
    \E a, b \in ClientIds :
        /\ a # b
        /\ buckets[a].present /\ buckets[a].tokens < Scale
        /\ buckets[a].last_refill = now
        /\ chk.client_id = b /\ chk.n = 1 /\ chk.outcome = "ok"
        /\ streak[b] = 1
        /\ buckets[b].tokens = (capacity - 1) * Scale

C12_Step ==
    \A c \in ClientIds :
        CheckStep(c, DefaultTokens) =>
            LET b == GetBucket(buckets, c, now)
                rb == Refill([tokens |-> b.tokens, last_refill |-> b.last_refill], now)
                co == Consume([tokens |-> b.tokens, last_refill |-> b.last_refill],
                              1, now)
            IN  /\ chk'.n = 1
                /\ IF co.granted
                   THEN /\ chk'.outcome = "ok"
                        /\ chk'.err_client = ""
                        /\ buckets'[c].tokens = rb.tokens - Scale
                   ELSE /\ chk'.outcome = "limited"
                        /\ chk'.retry_after = co.wait
                        /\ chk'.err_client = c
                        /\ buckets'[c].tokens = rb.tokens

C12_Error ==
    /\ chk.outcome = "limited" =>
          chk.err_client = chk.client_id /\ chk.retry_after.num > 0
    /\ chk.outcome # "limited" => chk.err_client = ""

\* C12: check_rate_limit(client_id) without a tokens argument takes exactly
\* one token from that client's bucket when the bucket grants it; when the
\* bucket denies, the call raises RateLimitError whose retry_after is the wait
\* time consume computed and whose client_id is the client checked, and the
\* bucket keeps every token it had.
C12_CheckContract == []C12_Error /\ [][C12_Step]_vars

\* A direct single-token check was denied and the error names the client.
C12_Witness ==
    /\ chk.source = "direct"
    /\ chk.n = 1
    /\ chk.outcome = "limited"
    /\ chk.err_client = chk.client_id
    /\ chk.client_id \in ClientIds
    /\ buckets[chk.client_id].present
    /\ buckets[chk.client_id].tokens < Scale

C13_Step ==
    /\ \A c \in ClientIds :
          (chk' = chk /\ mw' = mw /\ LimReset(c)) =>
              /\ ~buckets'[c].present
              /\ \A d \in ClientIds \ {c} : buckets'[d] = buckets[d]
    /\ (chk' = chk /\ mw' = mw /\ LimResetAll) =>
          \A c \in ClientIds : ~buckets'[c].present

C13_FullAfterReset ==
    \A c \in ClientIds :
        ~buckets[c].present =>
            /\ ResetOne(buckets, c) = buckets
            /\ GetBucket(buckets, c, now).tokens = capacity * Scale
            /\ LET r == CheckRateLimit(buckets, c, DefaultTokens, now)
               IN  /\ r.outcome = "ok"
                   /\ r.buckets[c].tokens = (capacity - 1) * Scale

\* C13: reset(client_id) removes that client's bucket, so that the client's
\* next check is served from a full bucket, and leaves every other client's
\* bucket as it was; reset() removes every bucket; reset of a client that has
\* no bucket changes nothing.
C13_Reset == []C13_FullAfterReset /\ [][C13_Step]_vars

\* A client that had been denied has no bucket any more (it was reset) while
\* another client's partly used bucket is still there.
C13_Witness ==
    \E c, d \in ClientIds :
        /\ c # d
        /\ chk.client_id = c /\ chk.outcome = "limited"
        /\ ~buckets[c].present
        /\ buckets[d].present /\ buckets[d].tokens < capacity * Scale

\* C15: the Retry-After header of a 429 response is the wait time the token
\* bucket computed for the denial, the retry_after of the RateLimitError.
C15_RetryAfterIsWait ==
    (chk.source = "middleware" /\ chk.outcome = "limited" /\ mw.status = 429) =>
        mw.retry_after * chk.retry_after.den = chk.retry_after.num

\* C16: for a path that is not excluded the handler is entered only after
\* the request's rate-limit check was granted, and a request whose check was
\* denied is answered 429 without the handler having run.
C16_CheckBeforeHandler ==
    /\ (mw.pc = "handler" /\ ~mw.excluded) => mw.check = "ok"
    /\ (mw.handled /\ ~mw.excluded) => mw.check = "ok"
    /\ mw.check = "limited" => (mw.pc = "done" /\ mw.status = 429 /\ ~mw.handled)
    /\ mw.status = 429 => mw.check = "limited"
    /\ mw.status = 200 => mw.handled

\* A request was denied and answered 429; its handler never ran.
C16_Witness ==
    /\ mw.pc = "done"
    /\ mw.check = "limited"
    /\ mw.status = 429
    /\ ~mw.handled
    /\ ~mw.excluded

C17_Step ==
    /\ \A r \in Requests :
          (/\ mw.pc # "handler"
           /\ \E e \in ExcludePaths : StartsWith(r.path, e)
           /\ Dispatch(r)) =>
              /\ buckets' = buckets
              /\ mw'.pc = "handler"
              /\ mw'.excluded
    /\ (mw.excluded /\ DispatchReturn) =>
          /\ buckets' = buckets
          /\ mw'.handled
          /\ mw'.status = 200

C17_Unchecked == mw.excluded => (mw.check = "none" /\ mw.status # 429)

\* C17: a request whose path starts with an excluded prefix goes to the
\* handler without a rate-limit check: no bucket is created, refilled or
\* charged for it, whatever the state of its client's bucket.
C17_ExcludedBypass == []C17_Unchecked /\ [][C17_Step]_vars

\* A request to an excluded path was handled while one client's bucket was
\* empty and the other client had no bucket, and still has none.
C17_Witness ==
    /\ mw.excluded /\ mw.handled /\ mw.status = 200
    /\ \E c \in ClientIds :
          buckets[c].present /\ buckets[c].tokens < Scale
          /\ buckets[c].last_refill = now
    /\ \A c \in ClientIds :
          buckets[c].present => buckets[c].tokens < Scale
    /\ \E c \in ClientIds : ~buckets[c].present

(***************************************************************************)
(* RateLimiter, concurrent callers                                         *)
(*                                                                         *)
(* Threads call check_rate_limit(client_id) on one limiter while the clock *)
(* stands still and nobody calls reset.  _get_bucket runs under the        *)
(* limiter's lock, statement by statement; consume runs under the bucket's *)
(* own lock and is one step.                                               *)
(***************************************************************************)
\* first: the client had no bucket when the call began; bucket: the object
\* _get_bucket returned (0: not yet).
NoThread == [pc |-> "idle", client_id |-> "", first |-> FALSE, bucket |-> 0,
             outcome |-> "none"]

\* A limiter whose _get_bucket takes no lock.
LimLockAvailableAlways(t) == TRUE

\* `with self._lock:` in _get_bucket can be entered (an RLock).
LimLockAvailable(t) == lim_lock \in {0, t}

\* TokenBucket(rate=tokens_per_second, capacity=bucket_size) made for
\* client_id at time t; granted counts the tokens granted from it since.
NewObject(client_id, t) ==
    [client_id |-> client_id, rate |-> rate, capacity |-> capacity,
     tokens |-> NewBucket(t).tokens, last_refill |-> NewBucket(t).last_refill,
     granted |-> 0]

\* Thread t calls check_rate_limit(c) and enters _get_bucket.
LCall(t, c) ==
    /\ lthr[t].pc \in {"idle", "done"}
    /\ lthr' = [lthr EXCEPT ![t] = [NoThread EXCEPT !.pc = "acquire",
                                                     !.client_id = c,
                                                     !.first = (bucket_of[c] = 0)]]
    /\ UNCHANGED <<lim_lock, bucket_of, objects>>
    /\ LconFrame

\* with self._lock:
LAcquire(t) ==
    /\ lthr[t].pc = "acquire"
    /\ LimLockAvailable(t)
    /\ lim_lock' = t
    /\ lthr' = [lthr EXCEPT ![t].pc = "test"]
    /\ UNCHANGED <<bucket_of, objects>>
    /\ LconFrame

\* if client_id not in self._buckets:
LTest(t) ==
    /\ lthr[t].pc = "test"
    /\ lthr' = [lthr EXCEPT ![t].pc =
                   IF bucket_of[lthr[t].client_id] = 0 THEN "create" ELSE "return"]
    /\ UNCHANGED <<lim_lock, bucket_of, objects>>
    /\ LconFrame

\* self._buckets[client_id] = TokenBucket(...)
LCreate(t) ==
    /\ lthr[t].pc = "create"
    /\ objects' = Append(objects, NewObject(lthr[t].client_id, now))
    /\ bucket_of' = [bucket_of EXCEPT ![lthr[t].client_id] = Len(objects) + 1]
    /\ lthr' = [lthr EXCEPT ![t].pc = "return"]
    /\ UNCHANGED lim_lock
    /\ LconFrame

\* return self._buckets[client_id], leaving the with block
LReturn(t) ==
    /\ lthr[t].pc = "return"
    /\ lthr' = [lthr EXCEPT ![t].pc = "consume",
                            ![t].bucket = bucket_of[lthr[t].client_id]]
    /\ lim_lock' = IF lim_lock = t THEN 0 ELSE lim_lock
    /\ UNCHANGED <<bucket_of, objects>>
    /\ LconFrame

\* allowed, wait_time = bucket.consume(tokens), and the return or raise
LConsume(t) ==
    /\ lthr[t].pc = "consume"
    /\ LET o == objects[lthr[t].bucket]
           c == Consume([tokens |-> o.tokens, last_refill |-> o.last_refill],
                        DefaultTokens, now)
       IN  /\ objects' = [objects EXCEPT ![lthr[t].bucket] =
                            [o EXCEPT !.tokens = c.bucket.tokens,
                                      !.last_refill = c.bucket.last_refill,
                                      !.granted = IF c.granted
                                                  THEN @ + DefaultTokens ELSE @]]
           /\ lthr' = [lthr EXCEPT ![t].pc = "done",
                                   ![t].outcome = IF c.granted THEN "ok" ELSE "limited"]
    /\ UNCHANGED <<lim_lock, bucket_of>>
    /\ LconFrame

NextLimConc ==
    \/ \E t \in Threads, c \in ClientIds : LCall(t, c)
    \/ \E t \in Threads : LAcquire(t)
    \/ \E t \in Threads : LTest(t)
    \/ \E t \in Threads : LCreate(t)
    \/ \E t \in Threads : LReturn(t)
    \/ \E t \in Threads : LConsume(t)

\* C14: with no reset, a client never has more than one bucket: the bucket
\* is made once, with the limiter's rate and a full capacity, and every
\* check for the client, concurrent first checks included, is served from
\* it, so that the tokens granted to the client and the tokens left add up
\* to one capacity.
C14_OneBucketPerClient ==
    /\ \A c \in ClientIds :
          Cardinality({i \in DOMAIN objects : objects[i].client_id = c}) <= 1
    /\ \A c \in ClientIds :
          bucket_of[c] # 0 => objects[bucket_of[c]].client_id = c
    /\ \A i \in DOMAIN objects :
          /\ objects[i].rate = rate
          /\ objects[i].capacity = capacity
          /\ objects[i].tokens + objects[i].granted * Scale = capacity * Scale
    /\ \A t \in Threads :
          lthr[t].bucket # 0 => lthr[t].bucket = bucket_of[lthr[t].client_id]

\* Two threads made a client's first check at the same time and both were
\* served from the one bucket the client has.
C14_Witness ==
    \E t, u \in Threads :
        /\ t # u
        /\ lthr[t].pc = "done" /\ lthr[u].pc = "done"
        /\ lthr[t].client_id = lthr[u].client_id
        /\ lthr[t].first /\ lthr[u].first
        /\ lthr[t].bucket # 0
        /\ lthr[t].bucket = lthr[u].bucket
        /\ Len(objects) = 1

(***************************************************************************)
(* RateLimiter, concurrent callers and reset                               *)
(***************************************************************************)
\* reset(c), called by another thread than the checking ones, run under the
\* limiter's lock: the client's bucket, if it has one, is taken out of
\* _buckets.  The object stays with the threads that hold it.  From here on
\* `granted` counts the tokens granted to the client since this reset.
Reset(c) ==
    /\ lim_lock = 0
    /\ Len(objects) <= MaxResets
    /\ bucket_of' = [bucket_of EXCEPT ![c] = 0]
    /\ objects' = [i \in DOMAIN objects |->
                      IF objects[i].client_id = c
                      THEN [objects[i] EXCEPT !.granted = 0]
                      ELSE objects[i]]
    /\ UNCHANGED <<lim_lock, lthr>>
    /\ LconFrame

NextLimReset ==
    \/ NextLimConc
    \/ \E c \in ClientIds : Reset(c)

\* The tokens granted to client c from the first i bucket objects since the
\* client's last reset, or since the limiter was made.
RECURSIVE AdmittedUpTo(_, _)
AdmittedUpTo(c, i) ==
    IF i = 0 THEN 0
    ELSE AdmittedUpTo(c, i - 1)
         + (IF objects[i].client_id = c THEN objects[i].granted ELSE 0)

\* C40: while the clock stands still, the checks admitted for a client since
\* its last reset number at most the capacity, and no check is admitted from
\* a bucket that a reset has taken out of the limiter.
C40_AdmittedSinceReset ==
    /\ [](\A c \in ClientIds : AdmittedUpTo(c, Len(objects)) <= capacity)
    /\ [][\A t \in Threads :
             (LConsume(t) /\ lthr'[t].outcome = "ok") =>
                 lthr[t].bucket = bucket_of[lthr[t].client_id]]_vars

(***************************************************************************)
(* Client identification                                                   *)
(***************************************************************************)
\* The requests _get_client_identifier is applied to: every combination of
\* present and absent sources, a key that looks like an address, and a
\* forwarded-for entry with whitespace around it.
IdentRequests ==
    [path : {<<"/test">>},
     header_key : {"", "k1", "10.0.0.1"},
     query_key : {"", "k1", "k2"},
     forwarded_for : {<<>>,
                      << <<" ", "10.0.0.1", " ">>, <<"10.0.0.2">> >>,
                      << <<"10.0.0.2">> >>},
     host : {"", "10.0.0.1"}]

\* client_id = _get_client_identifier(request)
Identify(request) ==
    /\ idents' = <<[request |-> request, id |-> ClientIdentifier(request)]>>
                    \o SubSeq(idents, 1, Min(1, Len(idents)))
    /\ IdentFrame

NextIdent == \E r \in IdentRequests : Identify(r)

\* The source a request's client is read from when the first one present wins.
IdentSource(request) ==
    IF request.header_key # "" THEN "header"
    ELSE IF request.query_key # "" THEN "query"
    ELSE IF request.forwarded_for # <<>> THEN "forwarded"
    ELSE "direct"

\* The first address of a forwarded-for header.
FirstAddress(header) ==
    CHOOSE a \in {header[1][i] : i \in DOMAIN header[1]} : a # " "

\* The identifier the first-match order gives a request.
FirstMatch(request) ==
    LET src == IdentSource(request)
    IN  IF src = "header" THEN "api_key:" \o request.header_key
        ELSE IF src = "query" THEN "api_key:" \o request.query_key
        ELSE IF src = "forwarded" THEN "ip:" \o FirstAddress(request.forwarded_for)
        ELSE IF request.host # "" THEN "ip:" \o request.host
        ELSE "ip:unknown"

\* C18 as stated: the identifier is the first match among API-key header,
\* API-key query parameter, first forwarded-for address and connection
\* address, and requests identified from different sources get different
\* identifiers.
C18_DistinctPerSource ==
    /\ \A i \in DOMAIN idents : idents[i].id = FirstMatch(idents[i].request)
    /\ Len(idents) = 2 =>
          (IdentSource(idents[1].request) # IdentSource(idents[2].request)
              => idents[1].id # idents[2].id)

\* C18: the identifier is the first match among API-key header, API-key
\* query parameter, first forwarded-for address and connection address; both
\* key sources give "api_key:<key>", both address sources "ip:<address>",
\* and an identifier read from a key is never one read from an address.
C18_FirstMatchTwoNamespaces ==
    /\ \A i \in DOMAIN idents : idents[i].id = FirstMatch(idents[i].request)
    /\ Len(idents) = 2 =>
          ((IdentSource(idents[1].request) \in {"header", "query"}
            /\ IdentSource(idents[2].request) \in {"forwarded", "direct"})
              => idents[1].id # idents[2].id)

\* A request identified by its query key although it carries a forwarded-for
\* chain and a host, after one identified by the first forwarded address,
\* which is the very string the other one's key is.
C18_Witness ==
    /\ Len(idents) = 2
    /\ idents[1].request.header_key = ""
    /\ idents[1].request.query_key = "k1"
    /\ idents[1].request.forwarded_for # <<>>
    /\ idents[1].id = "api_key:k1"
    /\ idents[2].request.header_key = ""
    /\ idents[2].request.query_key = ""
    /\ Len(idents[2].request.forwarded_for) = 2
    /\ idents[2].id = "ip:10.0.0.1"

(***************************************************************************)
(* DocumentProcessor                                                       *)
(*                                                                         *)
(* A document is its length; a chunk's text is the span of the content it  *)
(* was sliced from.                                                        *)
(***************************************************************************)
\* ProcessingParameters: the Field limits of chunk_size, chunk_overlap and
\* max_chunks_per_doc.
ChunkSizeMin == 100
ChunkSizeMax == 8192
ChunkOverlapMax == 4096
MaxChunksMax == 10000

\* DocumentProcessor() with no arguments.
DefaultProcessor ==
    [chunk_size |-> 512, chunk_overlap |-> 128, max_chunks_per_doc |-> 1000]

\* ProcessingParameters accepts p: the Field limits and validate_overlap.
ValidParameters(p) ==
    /\ p.chunk_size \in ChunkSizeMin..ChunkSizeMax
    /\ p.chunk_overlap \in 0..ChunkOverlapMax
    /\ p.max_chunks_per_doc \in 1..MaxChunksMax
    /\ p.chunk_overlap < p.chunk_size
    /\ p.chunk_overlap <= p.chunk_size \div 2

\* The processors of the model: the smallest chunk sizes, with no overlap, an
\* overlap of one character and the largest overlap the smallest size allows.
Processors ==
    {p \in [chunk_size : ChunkSizeMin..(ChunkSizeMin + SizeSpread),
            chunk_overlap : {0, 1, ChunkSizeMin \div 2},
            max_chunks_per_doc : 1..MaxK] : ValidParameters(p)}

\* A loop that lets one chunk too many through.
LimitReachedOffByOne(i, k) == i > k

\* if chunk_index >= self.max_chunks_per_doc: break
LimitReached(i, k) == i >= k

\* A chunk end that runs past the end of the content.
ChunkEndUnclamped(s) == s + processor.chunk_size

\* end = min(start + self.chunk_size, text_length)
ChunkEnd(s) == Min(s + processor.chunk_size, content_length)

\* content[i:j] for 0 <= i <= j, as the span of the content it covers.
Slice(i, j) ==
    [from |-> Min(i, content_length), to |-> Min(j, content_length)]

\* Chunk.id, default_factory=uuid4: a value no chunk made before has.  The
\* values are numbered in the order they are drawn; the numbering restarts
\* when a call on other content begins.
Uuid4 == uuid_seq + 1

\* A total that counts the chunks the processor has made so far.
TotalChunksSoFar == uuid_seq + 1

\* A total that divides the length by the chunk size.
TotalChunksBySize ==
    Min((content_length + processor.chunk_size - 1) \div processor.chunk_size,
        processor.max_chunks_per_doc)

\* min(math.ceil(text_length / (chunk_size - chunk_overlap)), max_chunks_per_doc)
TotalChunks ==
    LET step == processor.chunk_size - processor.chunk_overlap
    IN  Min((content_length + step - 1) \div step, processor.max_chunks_per_doc)

\* A next start that leaves one character out.
NextStartSkips(end) == end + 1

\* A next start that never steps back by the overlap.
NextStartNoOverlap(end) == end

\* A next start that steps back by the whole chunk.
NextStartWholeChunk(end) ==
    IF processor.chunk_overlap > 0 /\ end < content_length
    THEN end - processor.chunk_size
    ELSE end

\* The start of the next iteration: the overlap is applied unless the chunk
\* reached the end of the content.
NextStart(end) ==
    IF processor.chunk_overlap > 0 /\ end < content_length
    THEN end - processor.chunk_overlap
    ELSE end

\* process_document(doc_meta, content) is called on content of n characters.
ProcessCall(n) ==
    /\ ppc = "idle"
    /\ content_length' = n
    /\ start' = 0
    /\ chunk_index' = 0
    /\ out_chunks' = <<>>
    /\ ppc' = "loop"
    /\ uuid_seq' = 0
    /\ prev_chunks' = <<>>
    /\ runs' = 1
    /\ UNCHANGED processor
    /\ DocFrame

\* process_document is called a second time on the same processor with the
\* doc_meta and content of the call that just returned.
ProcessAgain ==
    /\ ppc = "done"
    /\ runs = 1
    /\ start' = 0
    /\ chunk_index' = 0
    /\ out_chunks' = <<>>
    /\ ppc' = "loop"
    /\ prev_chunks' = out_chunks
    /\ runs' = 2
    /\ UNCHANGED <<processor, content_length, uuid_seq>>
    /\ DocFrame

\* One iteration of the while loop that appends a chunk.
LoopAppend ==
    /\ ppc = "loop"
    /\ start < content_length
    /\ ~LimitReached(chunk_index, processor.max_chunks_per_doc)
    /\ LET end == ChunkEnd(start)
       IN  /\ out_chunks' = Append(out_chunks,
                                   [id |-> Uuid4,
                                    index |-> chunk_index,
                                    text |-> Slice(start, end),
                                    chunk_start |-> start,
                                    chunk_end |-> end,
                                    total_chunks |-> TotalChunks])
           /\ chunk_index' = chunk_index + 1
           /\ start' = NextStart(end)
    /\ uuid_seq' = uuid_seq + 1
    /\ UNCHANGED <<processor, content_length, ppc, prev_chunks, runs>>
    /\ DocFrame

\* The max-chunks check breaks out of the loop; the chunks so far are returned.
LoopBreak ==
    /\ ppc = "loop"
    /\ start < content_length
    /\ LimitReached(chunk_index, processor.max_chunks_per_doc)
    /\ ppc' = "done"
    /\ UNCHANGED <<processor, content_length, start, chunk_index, out_chunks,
                   uuid_seq, prev_chunks, runs>>
    /\ DocFrame

\* The loop condition fails; the chunks are returned.
LoopExit ==
    /\ ppc = "loop"
    /\ start >= content_length
    /\ ppc' = "done"
    /\ UNCHANGED <<processor, content_length, start, chunk_index, out_chunks,
                   uuid_seq, prev_chunks, runs>>
    /\ DocFrame

\* The caller lets go of the list it was handed.  Nothing of a call is kept:
\* chunks, start and chunk_index are locals and the processor holds its three
\* parameters only.
ProcessForget ==
    /\ ppc = "done"
    /\ content_length' = 0
    /\ start' = 0
    /\ chunk_index' = 0
    /\ out_chunks' = <<>>
    /\ ppc' = "idle"
    /\ uuid_seq' = 0
    /\ prev_chunks' = <<>>
    /\ runs' = 0
    /\ UNCHANGED processor
    /\ DocFrame

NextDoc ==
    \/ \E n \in 0..MaxContent : ProcessCall(n)
    \/ ProcessAgain
    \/ LoopAppend
    \/ LoopBreak
    \/ LoopExit
    \/ ProcessForget

\* The number of chunks the loop makes of the content from offset s on when
\* nothing limits their number.
RECURSIVE ChunksNeeded(_)
ChunksNeeded(s) ==
    IF s >= content_length THEN 0
    ELSE 1 + ChunksNeeded(NextStart(Min(s + processor.chunk_size, content_length)))

\* C19: process_document never returns more than max_chunks_per_doc chunks,
\* and for content that needs more than k = max_chunks_per_doc chunks it
\* returns exactly k, the last of them with index k - 1.
C19_MaxChunks ==
    LET k == processor.max_chunks_per_doc
    IN  /\ Len(out_chunks) <= k
        /\ (ppc = "done" /\ ChunksNeeded(0) > k) =>
              /\ Len(out_chunks) = k
              /\ out_chunks[k].index = k - 1

\* A document that needs more chunks than the limit of two or more allows
\* was cut off at the limit.
C19_Witness ==
    /\ ppc = "done"
    /\ processor.max_chunks_per_doc >= 2
    /\ ChunksNeeded(0) > processor.max_chunks_per_doc
    /\ Len(out_chunks) = processor.max_chunks_per_doc
    /\ start < content_length

\* C20 as stated: content shorter than chunk_size gives exactly one chunk,
\* which spans [0, L).
C20_ShortContentOneChunk ==
    (ppc = "done" /\ content_length < processor.chunk_size) =>
        /\ Len(out_chunks) = 1
        /\ out_chunks[1].chunk_start = 0
        /\ out_chunks[1].chunk_end = content_length

\* C20: content that is not empty and shorter than chunk_size gives exactly
\* one chunk, which spans [0, L) and holds the whole content; empty content
\* gives no chunk.
C20_ShortNonEmptyOneChunk ==
    /\ (ppc = "done" /\ content_length > 0
                     /\ content_length < processor.chunk_size) =>
          /\ Len(out_chunks) = 1
          /\ out_chunks[1].index = 0
          /\ out_chunks[1].chunk_start = 0
          /\ out_chunks[1].chunk_end = content_length
          /\ out_chunks[1].text = [from |-> 0, to |-> content_length]
    /\ (ppc = "done" /\ content_length = 0) => out_chunks = <<>>

\* A document one character short of the chunk size came out as one chunk,
\* although the processor overlaps its chunks.
C20_Witness ==
    /\ ppc = "done"
    /\ content_length = processor.chunk_size - 1
    /\ processor.chunk_overlap > 0
    /\ Len(out_chunks) = 1
    /\ out_chunks[1].chunk_end = content_length

\* C21: with chunk_overlap > 0, a chunk that is followed by another ends
\* exactly chunk_overlap characters after the next one starts (the pair that
\* ends in the last chunk included); with chunk_overlap = 0 every chunk
\* starts exactly where the one before it ended.
C21_OverlapLaw ==
    /\ processor.chunk_overlap > 0 =>
          \A i \in 1..(Len(out_chunks) - 1) :
              out_chunks[i].chunk_end - out_chunks[i + 1].chunk_start
                  = processor.chunk_overlap
    /\ processor.chunk_overlap = 0 =>
          \A i \in 1..(Len(out_chunks) - 1) :
              out_chunks[i + 1].chunk_start = out_chunks[i].chunk_end

\* An overlapping processor returned three chunks or more: the first two
\* are both followed by another chunk.
C21_Witness ==
    /\ ppc = "done"
    /\ processor.chunk_overlap > 1
    /\ Len(out_chunks) >= 3
    /\ out_chunks[2].chunk_start = out_chunks[1].chunk_end - processor.chunk_overlap
    /\ out_chunks[2].chunk_start < out_chunks[1].chunk_end

\* The loop has stopped only with the content used up or the limit reached,
\* and it made chunks only while neither was the case.
C22_Stops ==
    /\ ppc = "done" =>
          \/ start >= content_length
          \/ Len(out_chunks) = processor.max_chunks_per_doc
    /\ \A i \in 1..Len(out_chunks) :
          /\ out_chunks[i].chunk_start < content_length
          /\ i <= processor.max_chunks_per_doc

\* An iteration that stays in the loop moves start forward.
C22_Step == (ppc = "loop" /\ ppc' = "loop") => start' > start

\* C22: process_document terminates for every validated processor and every
\* content: start strictly increases on every iteration of the loop, the loop
\* stops when start >= len(content) or when max_chunks_per_doc chunks were
\* made, whichever comes first, and every call returns.
C22_Terminates ==
    /\ []C22_Stops
    /\ [][C22_Step]_vars
    /\ (ppc = "loop" ~> ppc = "done")

\* A call that ran the loop three times, stepping back by the overlap each
\* time, has returned with content left over.
C22_Witness ==
    /\ ppc = "done"
    /\ processor.chunk_overlap > 0
    /\ chunk_index = 3
    /\ start < content_length
    /\ start > 0

WithoutId(c) == [f \in DOMAIN c \ {"id"} |-> c[f]]

C35_TotalChunksBound ==
    \A i \in 1..Len(out_chunks) :
        /\ out_chunks[i].total_chunks >= Len(out_chunks)
        /\ (ppc = "done" /\ processor.chunk_overlap = 0) =>
              out_chunks[i].total_chunks = Len(out_chunks)

\* A call with overlap returned fewer chunks than their total_chunks says.
C35_Witness ==
    /\ ppc = "done"
    /\ processor.chunk_overlap > 0
    /\ Len(out_chunks) >= 2
    /\ out_chunks[1].total_chunks > Len(out_chunks)

\* The call has returned and the loop ended by its condition, not by the
\* limit on the number of chunks.
NotTruncated == ppc = "done" /\ start >= content_length

\* The chunks cover the content from its first character to its last.
Tiled ==
    LET n == Len(out_chunks)
    IN  /\ content_length = 0 => n = 0
        /\ content_length > 0 =>
              /\ n >= 1
              /\ out_chunks[1].chunk_start = 0
              /\ out_chunks[n].chunk_end = content_length
        /\ \A i \in 1..n :
              /\ out_chunks[i].index = i - 1
              /\ out_chunks[i].chunk_start < out_chunks[i].chunk_end
              /\ out_chunks[i].chunk_end - out_chunks[i].chunk_start
                    <= processor.chunk_size
              /\ out_chunks[i].text = [from |-> out_chunks[i].chunk_start,
                                       to |-> out_chunks[i].chunk_end]
        /\ \A i \in 2..n : out_chunks[i].chunk_start <= out_chunks[i - 1].chunk_end

\* C36: the chunks of a call that was not truncated have the indices 0 to
\* n - 1 in order, begin at offset 0 and end at the length of the content,
\* are each non-empty, no longer than chunk_size and the slice of the content
\* between their offsets, and each begins no later than the one before it
\* ends; of empty content there are none.
C36_Tiling == NotTruncated => Tiled

\* A call with overlap returned three chunks that reach the end of the
\* content.
C36_Witness ==
    /\ NotTruncated
    /\ processor.chunk_overlap > 1
    /\ Len(out_chunks) = 3

(***************************************************************************)
(* ProcessingParameters and DocumentProcessor.__init__                     *)
(***************************************************************************)
\* info.data.get('chunk_size', 512): the chunk size validate_overlap uses when
\* chunk_size did not validate.
FallbackChunkSize == 512

\* The fields of ProcessingParameters, in the order they are validated.
Fields == <<"chunk_size", "chunk_overlap", "max_chunks_per_doc">>

Near(x) == (x - Margin)..(x + Margin)

\* The arguments of the model: every value within Margin of a limit, of half
\* the smallest chunk size, of the smallest chunk size, and of half the chunk
\* size validate_overlap falls back to.
CtorArgs ==
    [chunk_size : Near(ChunkSizeMin) \cup Near(ChunkSizeMax),
     chunk_overlap : Near(0) \cup Near(ChunkSizeMin \div 2) \cup Near(ChunkSizeMin)
                     \cup Near(FallbackChunkSize \div 2) \cup Near(ChunkOverlapMax),
     max_chunks_per_doc : Near(1) \cup Near(MaxChunksMax)]

NoError == [type |-> "none", check |-> "", against |-> 0, maximum |-> 0]

\* Field(ge=lo, le=hi)
RangeError(v, lo, hi) ==
    IF v < lo
    THEN [type |-> "greater_than_equal", check |-> "", against |-> lo, maximum |-> 0]
    ELSE IF v > hi
    THEN [type |-> "less_than_equal", check |-> "", against |-> hi, maximum |-> 0]
    ELSE NoError

\* A validator without the 50% rule.
ValidateOverlapSizeOnly(v, chunk_size) ==
    IF v >= chunk_size
    THEN [type |-> "value_error", check |-> "less_than_chunk_size",
          against |-> chunk_size, maximum |-> chunk_size - 1]
    ELSE NoError

\* validate_overlap(v, info) with chunk_size = info.data.get('chunk_size', 512).
\* maximum is the number the message gives as the largest overlap.
ValidateOverlap(v, chunk_size) ==
    IF v >= chunk_size
    THEN [type |-> "value_error", check |-> "less_than_chunk_size",
          against |-> chunk_size,
          maximum |-> IF chunk_size - 1 >= 0 THEN chunk_size - 1 ELSE 0]
    ELSE IF v > chunk_size \div 2
    THEN [type |-> "value_error", check |-> "half_of_chunk_size",
          against |-> chunk_size, maximum |-> chunk_size \div 2]
    ELSE NoError

\* The validation of each field of ProcessingParameters(**a): the Field limits
\* first, and for a chunk_overlap within its limits validate_overlap, which
\* sees chunk_size only if chunk_size validated.
FieldErrors(a) ==
    LET size_error == RangeError(a.chunk_size, ChunkSizeMin, ChunkSizeMax)
        seen_size == IF size_error = NoError THEN a.chunk_size
                     ELSE FallbackChunkSize
        overlap_range == RangeError(a.chunk_overlap, 0, ChunkOverlapMax)
    IN  [chunk_size |-> size_error,
         chunk_overlap |-> IF overlap_range # NoError THEN overlap_range
                           ELSE ValidateOverlap(a.chunk_overlap, seen_size),
         max_chunks_per_doc |-> RangeError(a.max_chunks_per_doc, 1, MaxChunksMax)]

\* An error list that stops at the first field that fails.
ErrorsFirstOnly(a) ==
    LET all == SelectSeq([i \in 1..Len(Fields) |->
                             [loc |-> Fields[i], error |-> FieldErrors(a)[Fields[i]]]],
                         LAMBDA e : e.error # NoError)
    IN  IF all = <<>> THEN <<>> ELSE <<Head(all)>>

\* e.errors(): one entry for every field that failed, in field order.
Errors(a) ==
    SelectSeq([i \in 1..Len(Fields) |->
                  [loc |-> Fields[i], error |-> FieldErrors(a)[Fields[i]]]],
              LAMBDA e : e.error # NoError)

NoParameters == [chunk_size |-> 0, chunk_overlap |-> 0, max_chunks_per_doc |-> 0]

NoCtor == [class |-> "none", args |-> NoParameters, raised |-> "none",
           status_code |-> 0, object |-> NoParameters, errors |-> <<>>,
           message |-> <<>>]

\* What class(**a) gives: the object with the three values, or the error
\* raised with its entries and the fields its message names.
Constructed(class, a, raised, status_code) ==
    IF Errors(a) = <<>>
    THEN [class |-> class, args |-> a, raised |-> "none", status_code |-> 0,
          object |-> a, errors |-> <<>>, message |-> <<>>]
    ELSE [class |-> class, args |-> a, raised |-> raised,
          status_code |-> status_code, object |-> NoParameters,
          errors |-> Errors(a),
          message |-> [i \in 1..Len(Errors(a)) |-> Errors(a)[i].loc]]

\* ProcessingParameters(chunk_size=..., chunk_overlap=..., max_chunks_per_doc=...)
NewProcessingParameters(a) ==
    /\ ctor = NoCtor
    /\ ctor' = Constructed("ProcessingParameters", a, "PydanticValidationError", 0)
    /\ UNCHANGED instance
    /\ ParFrame

\* DocumentProcessor(chunk_size, chunk_overlap, max_chunks_per_doc): the
\* pydantic error is turned into a ValidationError (status 422) whose message
\* joins "<field>: <msg>" over the entries.
NewDocumentProcessor(a) ==
    /\ ctor = NoCtor
    /\ ctor' = Constructed("DocumentProcessor", a, "ValidationError", 422)
    /\ UNCHANGED instance
    /\ ParFrame

\* The caller lets go of what the construction gave it; a construction
\* leaves nothing behind in the class.
ParamsForget ==
    /\ ctor # NoCtor
    /\ ctor' = NoCtor
    /\ UNCHANGED instance
    /\ ParFrame

NextParams ==
    \/ \E a \in CtorArgs : NewProcessingParameters(a)
    \/ \E a \in CtorArgs : NewDocumentProcessor(a)
    \/ ParamsForget

\* The error's message names field f.
Named(f) == \E i \in DOMAIN ctor.message : ctor.message[i] = f

\* The limits and the two overlap rules the parameters are to satisfy.
Satisfies(p) ==
    /\ 100 <= p.chunk_size /\ p.chunk_size <= 8192
    /\ 0 <= p.chunk_overlap /\ p.chunk_overlap <= 4096
    /\ 1 <= p.max_chunks_per_doc /\ p.max_chunks_per_doc <= 10000
    /\ p.chunk_overlap < p.chunk_size
    /\ p.chunk_overlap <= p.chunk_size \div 2

\* C24: every ProcessingParameters or DocumentProcessor that was constructed
\* has 100 <= chunk_size <= 8192, 0 <= chunk_overlap <= 4096,
\* 1 <= max_chunks_per_doc <= 10000, chunk_overlap < chunk_size and
\* chunk_overlap <= floor(chunk_size / 2), and holds the values it was given;
\* arguments that break one of these make the construction fail, with no
\* object and a message that names every field outside its own limits and
\* names chunk_overlap when it breaks an overlap rule of a valid chunk_size.
C24_ValidatedOrRejected ==
    ctor # NoCtor =>
        /\ ctor.raised = "none" =>
              /\ Satisfies(ctor.object)
              /\ ctor.object = ctor.args
        /\ ~Satisfies(ctor.args) =>
              /\ ctor.raised # "none"
              /\ ctor.object = NoParameters
              /\ ctor.message # <<>>
              /\ ctor.args.chunk_size \notin 100..8192 => Named("chunk_size")
              /\ ctor.args.chunk_overlap \notin 0..4096 => Named("chunk_overlap")
              /\ ctor.args.max_chunks_per_doc \notin 1..10000 =>
                    Named("max_chunks_per_doc")
              /\ (/\ ctor.args.chunk_size \in 100..8192
                  /\ \/ ctor.args.chunk_overlap >= ctor.args.chunk_size
                     \/ ctor.args.chunk_overlap > ctor.args.chunk_size \div 2) =>
                    Named("chunk_overlap")

\* A DocumentProcessor was refused for an overlap one above half of the
\* smallest chunk size, everything else being within its limits.
C24_Witness ==
    /\ ctor.class = "DocumentProcessor"
    /\ ctor.args = [chunk_size |-> 100, chunk_overlap |-> 51, max_chunks_per_doc |-> 1]
    /\ ctor.raised = "ValidationError"
    /\ ctor.message = <<"chunk_overlap">>

\* The constraints the arguments a break.
Violated(a) ==
    {c \in {"chunk_size >= 100", "chunk_size <= 8192", "chunk_overlap >= 0",
            "chunk_overlap <= 4096", "max_chunks_per_doc >= 1",
            "max_chunks_per_doc <= 10000", "chunk_overlap < chunk_size",
            "chunk_overlap <= chunk_size / 2"} :
        \/ c = "chunk_size >= 100" /\ a.chunk_size < 100
        \/ c = "chunk_size <= 8192" /\ a.chunk_size > 8192
        \/ c = "chunk_overlap >= 0" /\ a.chunk_overlap < 0
        \/ c = "chunk_overlap <= 4096" /\ a.chunk_overlap > 4096
        \/ c = "max_chunks_per_doc >= 1" /\ a.max_chunks_per_doc < 1
        \/ c = "max_chunks_per_doc <= 10000" /\ a.max_chunks_per_doc > 10000
        \/ c = "chunk_overlap < chunk_size" /\ a.chunk_overlap >= a.chunk_size
        \/ c = "chunk_overlap <= chunk_size / 2"
             /\ a.chunk_overlap > a.chunk_size \div 2}

\* The constraint on the arguments a that an entry of the error reports; an
\* overlap rule checked against another chunk size than a's is none of them.
Reports(e, a) ==
    IF e.error.type = "greater_than_equal"
    THEN CASE e.loc = "chunk_size" -> "chunk_size >= 100"
           [] e.loc = "chunk_overlap" -> "chunk_overlap >= 0"
           [] OTHER -> "max_chunks_per_doc >= 1"
    ELSE IF e.error.type = "less_than_equal"
    THEN CASE e.loc = "chunk_size" -> "chunk_size <= 8192"
           [] e.loc = "chunk_overlap" -> "chunk_overlap <= 4096"
           [] OTHER -> "max_chunks_per_doc <= 10000"
    ELSE IF e.error.against # a.chunk_size THEN "none"
    ELSE IF e.error.check = "less_than_chunk_size" THEN "chunk_overlap < chunk_size"
    ELSE "chunk_overlap <= chunk_size / 2"

\* C25 as stated: the error of a refused DocumentProcessor lists every
\* constraint its arguments break.
C25_EveryConstraintListed ==
    (ctor.class = "DocumentProcessor" /\ ctor.raised # "none") =>
        \A c \in Violated(ctor.args) :
            \E i \in DOMAIN ctor.errors : Reports(ctor.errors[i], ctor.args) = c

\* Field f of the arguments a fails its validation: it is outside its limits
\* or, for a chunk_overlap within its limits, breaks an overlap rule of the
\* chunk size s.
Fails(f, a, s) ==
    \/ f = "chunk_size" /\ a.chunk_size \notin 100..8192
    \/ f = "max_chunks_per_doc" /\ a.max_chunks_per_doc \notin 1..10000
    \/ f = "chunk_overlap" /\ a.chunk_overlap \notin 0..4096
    \/ f = "chunk_overlap" /\ a.chunk_overlap \in 0..4096
          /\ (a.chunk_overlap >= s \/ a.chunk_overlap > s \div 2)

\* C25: the error of a refused DocumentProcessor has one entry for every
\* parameter that fails its validation, in the order chunk_size,
\* chunk_overlap, max_chunks_per_doc, and not only for the first of them;
\* chunk_overlap is held against chunk_size if chunk_size is valid and
\* against 512 otherwise, and its entry reports the first check it fails:
\* its limits, then overlap < chunk size, then the 50% rule.
C25_EveryFailingFieldListed ==
    (ctor.class = "DocumentProcessor" /\ ctor.raised # "none") =>
        LET a == ctor.args
            s == IF a.chunk_size \in 100..8192 THEN a.chunk_size ELSE 512
        IN  /\ ctor.message = SelectSeq(Fields, LAMBDA f : Fails(f, a, s))
            /\ Len(ctor.errors) = Len(ctor.message)
            /\ \A i \in DOMAIN ctor.errors :
                  /\ ctor.errors[i].loc = ctor.message[i]
                  /\ ctor.errors[i].loc = "chunk_overlap" =>
                        ctor.errors[i].error.type =
                            IF a.chunk_overlap < 0 THEN "greater_than_equal"
                            ELSE IF a.chunk_overlap > 4096 THEN "less_than_equal"
                            ELSE "value_error"
                  /\ ctor.errors[i].error.type = "value_error" =>
                        /\ ctor.errors[i].error.against = s
                        /\ ctor.errors[i].error.check =
                              IF a.chunk_overlap >= s THEN "less_than_chunk_size"
                              ELSE "half_of_chunk_size"

\* A DocumentProcessor was refused with all three parameters outside their
\* limits and the error has three entries.
C25_Witness ==
    /\ ctor.class = "DocumentProcessor"
    /\ ctor.args = [chunk_size |-> 99, chunk_overlap |-> 4097,
                    max_chunks_per_doc |-> 0]
    /\ ctor.raised = "ValidationError"
    /\ Len(ctor.errors) = 3
    /\ ctor.message = <<"chunk_size", "chunk_overlap", "max_chunks_per_doc">>

\* C26: ProcessingParameters with chunk_overlap >= chunk_size, both within
\* their limits, is refused with an error that names chunk_overlap and gives
\* as the largest overlap allowed the smaller of chunk_size - 1 and
\* floor(chunk_size / 2).
C26_ReportedMaximum ==
    (/\ ctor.class = "ProcessingParameters"
     /\ ctor.args.chunk_size \in 100..8192
     /\ ctor.args.chunk_overlap \in 0..4096
     /\ ctor.args.chunk_overlap >= ctor.args.chunk_size) =>
        /\ ctor.raised # "none"
        /\ \E i \in DOMAIN ctor.errors :
              /\ ctor.errors[i].loc = "chunk_overlap"
              /\ ctor.errors[i].error.maximum =
                    Min(ctor.args.chunk_size - 1, ctor.args.chunk_size \div 2)

(***************************************************************************)
(* Assignment to the fields of a ProcessingParameters object               *)
(* (validate_assignment=True)                                              *)
(***************************************************************************)
NoInstance == [object |-> NoParameters, field |-> "", value |-> 0, raised |-> FALSE]

\* The values assigned to a field: those the constructions of the model use.
AssignValues(f) == {a[f] : a \in CtorArgs}

\* The validation of obj.<f> = v: the Field limits of f and the validators
\* bound to f.  validate_overlap is bound to chunk_overlap only, and there it
\* reads the chunk_size the object has.
AssignError(obj, f, v) ==
    IF f = "chunk_size" THEN RangeError(v, ChunkSizeMin, ChunkSizeMax)
    ELSE IF f = "max_chunks_per_doc" THEN RangeError(v, 1, MaxChunksMax)
    ELSE LET overlap_range == RangeError(v, 0, ChunkOverlapMax)
         IN  IF overlap_range # NoError THEN overlap_range
             ELSE ValidateOverlap(v, obj.chunk_size)

\* ProcessingParameters(**a) returns an object.
NewInstance(a) ==
    /\ instance = NoInstance
    /\ Errors(a) = <<>>
    /\ instance' = [NoInstance EXCEPT !.object = a]
    /\ UNCHANGED ctor
    /\ ParFrame

\* obj.<f> = v: the value is stored when it validates; otherwise
\* ValidationError is raised and the object keeps its fields.
Assign(f, v) ==
    /\ instance.object # NoParameters
    /\ LET error == AssignError(instance.object, f, v)
       IN  instance' = [object |-> IF error = NoError
                                  THEN [instance.object EXCEPT ![f] = v]
                                  ELSE instance.object,
                        field |-> f, value |-> v, raised |-> error # NoError]
    /\ UNCHANGED ctor
    /\ ParFrame

\* The object is dropped.
InstanceForget ==
    /\ instance.object # NoParameters
    /\ instance' = NoInstance
    /\ UNCHANGED ctor
    /\ ParFrame

NextAssign ==
    \/ \E a \in CtorArgs : NewInstance(a)
    \/ \E i \in 1..Len(Fields) : \E v \in AssignValues(Fields[i]) : Assign(Fields[i], v)
    \/ InstanceForget

\* C39: a ProcessingParameters object has, after its construction and after
\* every assignment to one of its fields, an overlap below its chunk size and
\* of at most half of it.
C39_InvariantKept ==
    instance.object # NoParameters =>
        /\ instance.object.chunk_overlap < instance.object.chunk_size
        /\ instance.object.chunk_overlap <= instance.object.chunk_size \div 2

(***************************************************************************)
(* Ingestion jobs: ingest_document and process_and_index_document          *)
(*                                                                         *)
(* A job id or document id is the number of the uuid4() call that made it. *)
(* A dict stored as a job's result is a record of all the keys the program *)
(* ever stores, with `keys` saying which of them the dict has.             *)
(***************************************************************************)
\* result or {}
NoResult == [keys |-> {}, doc_id |-> 0, error |-> "", error_type |-> "",
             chunk_count |-> 0, backends |-> [k \in {} |-> PyNone]]

\* {"doc_id": doc_id}
DocIdResult(doc_id) == [NoResult EXCEPT !.keys = {"doc_id"}, !.doc_id = doc_id]

\* {"error": f"<step> error: {str(e)}"}
ErrorResult(msg) == [NoResult EXCEPT !.keys = {"error"}, !.error = msg]

\* {"error": str(e), "error_type": type(e).__name__}
TypedErrorResult(e) ==
    [NoResult EXCEPT !.keys = {"error", "error_type"}, !.error = e.msg,
                     !.error_type = e.class]

\* result.model_dump() of an IndexingResult
ModelDump(result) ==
    [NoResult EXCEPT !.keys = {"doc_id", "chunk_count", "backends"},
                     !.doc_id = result.doc_id,
                     !.chunk_count = result.chunk_count,
                     !.backends = result.backends]

\* The exceptions that travel through process_and_index_document.
DependencyError == [class |-> "DependencyError", msg |-> "Failed to fetch document"]
ChunkerError == [class |-> "Exception", msg |-> "chunker failed"]
IndexerError == [class |-> "Exception", msg |-> "indexing failed"]
AttributeError ==
    [class |-> "AttributeError",
     msg |-> "'IndexingResult' object has no attribute 'indexed_count'"]

\* update_job_status(job_id, status, result): the entry of the job is
\* replaced, whatever it was.
UpdateJobStatus(store, job_id, status, result) ==
    (job_id :> [status |-> status, result |-> result]) @@ store

\* The job store and the record of the calls made on it.
Journal == [store |-> job_store, writes |-> writes]

Write(j, job_id, status, result) ==
    [store |-> UpdateJobStatus(j.store, job_id, status, result),
     writes |-> Append(j.writes, [job_id |-> job_id, status |-> status])]

\* An outer handler that puts the job back in the queue.
OuterExceptRequeues(j, job_id, e) == Write(j, job_id, "pending", TypedErrorResult(e))

\* except Exception as e: the job is marked failed with the error and the
\* name of its class; nothing is raised again.
OuterExcept(j, job_id, e) == Write(j, job_id, "failed", TypedErrorResult(e))

\* An outer handler that raises again once it has marked the job.
OutcomeReraised(e) == "raised"

\* How the call ends once the outer handler has caught e: the handler ends
\* without a raise, so the coroutine returns None.
Outcome(e) == "returned"

\* The handler of the chunking step marks the job failed and raises again,
\* into the outer handler.
ChunkExcept(j, job_id, e) ==
    OuterExcept(Write(j, job_id, "failed", ErrorResult("Processing error: " \o e.msg)),
                job_id, e)

\* A handler of the indexing step that swallows the error and writes nothing.
IndexExceptSwallows(j, job_id, e) == j

\* The handler of the indexing step marks the job failed and raises again,
\* into the outer handler.
IndexExcept(j, job_id, e) ==
    OuterExcept(Write(j, job_id, "failed", ErrorResult("Indexing error: " \o e.msg)),
                job_id, e)

\* The parameters a job's processor is made of: the defaults of the settings
\* or the processing_params of the request.
JobProcessors ==
    {DefaultProcessor,
     [chunk_size |-> ChunkSizeMin, chunk_overlap |-> 0, max_chunks_per_doc |-> 1]}

\* The lengths of the documents of the jobs: empty, one chunk for every
\* processor, and more than one chunk of the default size.
JobLengths == {0, ChunkSizeMin, DefaultProcessor.chunk_size + 1}

\* len(processor.process_document(doc_meta, content)) for a processor with
\* parameters p and content of n characters: the loop from start s on with
\* i chunks made.
RECURSIVE ChunkCountFrom(_, _, _, _)
ChunkCountFrom(p, n, s, i) ==
    IF s >= n \/ i >= p.max_chunks_per_doc THEN i
    ELSE LET end == Min(s + p.chunk_size, n)
         IN  ChunkCountFrom(p, n,
                            IF p.chunk_overlap > 0 /\ end < n
                            THEN end - p.chunk_overlap ELSE end,
                            i + 1)

ProcessDocument(p, n) == ChunkCountFrom(p, n, 0, 0)

\* What the three gathered backend writes of one index_chunks call gave.
JobGathered ==
    [Tasks -> {PyDict([status |-> "success", count |-> 3]), PyExc("timeout")}]

\* The third gathered result as the service's configuration makes it: None
\* from the sleep, or the skip record when there is no Qdrant client.
Gathered(r) ==
    [r EXCEPT !["qdrant"] = IF ~use_qdrant_dev THEN PyNone
                            ELSE IF ~qdrant_client THEN PyDict(QdrantSkipped)
                            ELSE @]

\* await indexing_service.index_chunks(doc_id=..., chunks=chunks)
IndexChunks(doc_id, chunk_count, r) ==
    IndexingResult(doc_id, chunk_count, BuildBackends(Gathered(r), use_qdrant_dev))

\* The object index_chunks returned has an attribute indexed_count: an
\* IndexingResult has the fields doc_id, chunk_count and backends only.
HasIndexedCount(service) == service # "IndexingService"

\* A coordinator that fetches whatever it was given.
NeedsFetchAlways(t) == TRUE

\* if content is None
NeedsFetch(t) == ~t.inline

NoTask == [pc |-> "none", job_id |-> 0, doc_id |-> 0, via |-> "none",
           inline |-> FALSE, length |-> 0, processor |-> DefaultProcessor,
           chunker |-> "DocumentProcessor", service |-> "IndexingService",
           fetch_calls |-> 0, chunker_calls |-> 0, index_calls |-> 0,
           fetch_failed |-> FALSE, chunk_count |-> 0, index_returned |-> FALSE,
           index_result |-> NoResult, outcome |-> "none"]

NoResponse == [status_code |-> 0, error_type |-> "", job_id |-> 0]

\* processing_params with an overlap above half the chunk size.
InvalidParameters ==
    [chunk_size |-> ChunkSizeMin, chunk_overlap |-> ChunkSizeMin \div 2 + 1,
     max_chunks_per_doc |-> 1]

\* An endpoint that takes the processing parameters as they come.
ParametersValidAlways(p) == TRUE

\* ProcessingParameters(**p) validates: the processing_params of the request
\* body, or the parameters the DocumentProcessor is made of.
ParametersValid(p) == Errors(p) = <<>>

\* A request body and the content query parameter.  url: a valid url is
\* given; content: None, the empty string or a text.  The requests with
\* invalid processing_params are otherwise complete, with or without a url.
IngestRequests ==
    [url : BOOLEAN, content : {"None", "", "text"}, title : BOOLEAN,
     source : BOOLEAN, processor : JobProcessors]
    \cup [url : BOOLEAN, content : {"None"}, title : {TRUE}, source : {TRUE},
          processor : {InvalidParameters}]

\* DocumentMeta(id=doc_id, url=req.url or "local://content-provided",
\* title=req.title, source=req.source, ...) validates: url is an HttpUrl and
\* title and source are strings.
DocumentMetaValid(req) == req.url /\ req.title /\ req.source

\* The answer of POST /ingest/ to a request: 422 when the body does not
\* validate, 400 when there is neither url nor content, 500 when DocumentMeta
\* raises, 202 otherwise.
Answer(req) ==
    IF ~ParametersValid(req.processor)
    THEN [status_code |-> 422, error_type |-> "validation_error"]
    ELSE IF ~req.url /\ req.content # "text"
    THEN [status_code |-> 400, error_type |-> "invalid_request"]
    ELSE IF ~DocumentMetaValid(req)
    THEN [status_code |-> 500, error_type |-> "server_error"]
    ELSE [status_code |-> 202, error_type |-> ""]

\* POST /ingest/
IngestDocument(req) ==
    /\ task.pc \in {"none", "ended"}
    /\ job_ids < MaxJobs
    /\ job_ids' = job_ids + 1
    /\ LET job_id == job_ids + 1
           answer == Answer(req)
       IN  /\ resp' = [status_code |-> answer.status_code,
                       error_type |-> answer.error_type, job_id |-> job_id]
           /\ IF answer.status_code # 202
              THEN UNCHANGED <<job_store, writes, task>>
              ELSE LET j == Write(Journal, job_id, "pending", DocIdResult(job_id))
                   IN  /\ job_store' = j.store
                       /\ writes' = j.writes
                       /\ task' = [NoTask EXCEPT !.pc = "scheduled",
                                                 !.job_id = job_id,
                                                 !.doc_id = job_id,
                                                 !.via = "endpoint",
                                                 !.inline = FALSE,
                                                 !.processor = req.processor]
    /\ JobFrame

\* process_and_index_document(job_id, doc_id, doc_meta, content, fetch_func,
\* processor, indexing_service) called by other code than the endpoint, with
\* a job id of its own: content may be given, and the processor and the
\* indexing service may be any objects with the methods called on them.
DirectCall(inline, n, p, chunker, service) ==
    /\ task.pc \in {"none", "ended"}
    /\ job_ids < MaxJobs
    /\ job_ids' = job_ids + 1
    /\ task' = [NoTask EXCEPT !.pc = "scheduled", !.job_id = job_ids + 1,
                              !.doc_id = job_ids + 1, !.via = "direct",
                              !.inline = inline, !.length = n,
                              !.processor = p, !.chunker = chunker,
                              !.service = service]
    /\ UNCHANGED <<job_store, writes, resp>>
    /\ JobFrame

\* From the content of n characters to the await of index_chunks: the
\* chunking step, the write of "indexing" and the call of index_chunks.
ChunkAndCallIndex(t, j, n) ==
    IF t.chunker # "DocumentProcessor"
    THEN [task |-> [t EXCEPT !.pc = "ended", !.length = n,
                             !.chunker_calls = @ + 1,
                             !.outcome = Outcome(ChunkerError)],
          journal |-> ChunkExcept(j, t.job_id, ChunkerError)]
    ELSE [task |-> [t EXCEPT !.pc = "indexing", !.length = n,
                             !.chunker_calls = @ + 1,
                             !.chunk_count = ProcessDocument(t.processor, n),
                             !.index_calls = @ + 1],
          journal |-> Write(j, t.job_id, "indexing", NoResult)]

\* The background task runs up to its first await.
TaskStart ==
    /\ task.pc = "scheduled"
    /\ LET j == Write(Journal, task.job_id, "processing", NoResult)
           next == IF NeedsFetch(task)
                   THEN [task |-> [task EXCEPT !.pc = "fetching",
                                               !.fetch_calls = @ + 1],
                         journal |-> j]
                   ELSE ChunkAndCallIndex(task, j, task.length)
       IN  /\ task' = next.task
           /\ job_store' = next.journal.store
           /\ writes' = next.journal.writes
    /\ UNCHANGED <<resp, job_ids>>
    /\ JobFrame

\* await fetch_func(doc_meta.url) returns content of n characters.
FetchReturn(n) ==
    /\ task.pc = "fetching"
    /\ LET next == ChunkAndCallIndex(task, Journal, n)
       IN  /\ task' = next.task
           /\ job_store' = next.journal.store
           /\ writes' = next.journal.writes
    /\ UNCHANGED <<resp, job_ids>>
    /\ JobFrame

\* await fetch_func(doc_meta.url) raises: the error is wrapped in a
\* DependencyError, which the outer handler catches.
FetchRaise ==
    /\ task.pc = "fetching"
    /\ LET j == OuterExcept(Journal, task.job_id, DependencyError)
       IN  /\ job_store' = j.store
           /\ writes' = j.writes
    /\ task' = [task EXCEPT !.pc = "ended", !.fetch_failed = TRUE,
                            !.outcome = Outcome(DependencyError)]
    /\ UNCHANGED <<resp, job_ids>>
    /\ JobFrame

\* await index_chunks returns its result; the task logs the result's
\* indexed_count and backends and stores the dump of the result.
IndexReturnToTask(r) ==
    /\ task.pc = "indexing"
    /\ LET result == IndexChunks(task.doc_id, task.chunk_count, r)
           j == IF HasIndexedCount(task.service)
                THEN Write(Journal, task.job_id, "completed", ModelDump(result))
                ELSE IndexExcept(Journal, task.job_id, AttributeError)
       IN  /\ job_store' = j.store
           /\ writes' = j.writes
           /\ task' = [task EXCEPT !.pc = "ended", !.index_returned = TRUE,
                                   !.index_result = ModelDump(result),
                                   !.outcome = IF HasIndexedCount(task.service)
                                               THEN "returned"
                                               ELSE Outcome(AttributeError)]
    /\ UNCHANGED <<resp, job_ids>>
    /\ JobFrame

\* await index_chunks raises, which an IndexingService never does.
IndexRaise ==
    /\ task.pc = "indexing"
    /\ task.service # "IndexingService"
    /\ LET j == IndexExcept(Journal, task.job_id, IndexerError)
       IN  /\ job_store' = j.store
           /\ writes' = j.writes
    /\ task' = [task EXCEPT !.pc = "ended", !.outcome = Outcome(IndexerError)]
    /\ UNCHANGED <<resp, job_ids>>
    /\ JobFrame

NextJob ==
    \/ \E req \in IngestRequests : IngestDocument(req)
    \/ \E inline \in BOOLEAN, n \in JobLengths, p \in JobProcessors,
          chunker \in {"DocumentProcessor", "double"},
          service \in {"IndexingService", "double"} :
            /\ ~inline => n = 0
            /\ DirectCall(inline, n, p, chunker, service)
    \/ TaskStart
    \/ \E n \in JobLengths : FetchReturn(n)
    \/ FetchRaise
    \/ \E r \in JobGathered : IndexReturnToTask(r)
    \/ IndexRaise

\* The statuses written for job id, in order.
StatusesOf(id) ==
    LET w == SelectSeq(writes, LAMBDA x : x.job_id = id)
    IN  [i \in 1..Len(w) |-> w[i].status]

\* A write of status b over status a changes nothing or moves forward.
Forward(a, b) ==
    \/ a = b
    \/ a = "pending" /\ b = "processing"
    \/ a = "processing" /\ b = "indexing"
    \/ a = "indexing" /\ b = "completed"
    \/ a \in {"pending", "processing", "indexing"} /\ b = "failed"

\* C27: the status of a job changes only forward, pending -> processing ->
\* indexing -> completed, or to failed from a status that is not terminal;
\* after completed or failed no other status is ever written, whether the
\* fetch, the chunking and the indexing succeed or fail.  The status in the
\* store is the last one written.
C27_ForwardOnly ==
    \A id \in 1..job_ids :
        LET s == StatusesOf(id)
        IN  /\ \A i \in 1..(Len(s) - 1) : Forward(s[i], s[i + 1])
            /\ s # <<>> => (id \in DOMAIN job_store
                            /\ job_store[id].status = s[Len(s)])
            /\ s = <<>> => id \notin DOMAIN job_store

\* A submitted job went through every status and was marked failed twice.
C27_Witness ==
    /\ task.pc = "ended"
    /\ task.via = "endpoint"
    /\ StatusesOf(task.job_id) =
          <<"pending", "processing", "indexing", "failed", "failed">>
    /\ job_store[task.job_id].status = "failed"

\* C28: a job submitted with a url only whose fetch, chunking and indexing
\* all succeeded went pending -> processing -> indexing -> completed, with
\* completed the last status written, and its result has the number of
\* chunks the chunker made of the fetched content as chunk_count.
C28_UrlOnlyCompletes ==
    (/\ task.via = "endpoint"
     /\ task.pc = "ended"
     /\ ~task.fetch_failed
     /\ task.index_returned) =>
        /\ StatusesOf(task.job_id) =
              <<"pending", "processing", "indexing", "completed">>
        /\ job_store[task.job_id].status = "completed"
        /\ job_store[task.job_id].result.chunk_count =
              ProcessDocument(task.processor, task.length)

\* C29: when index_chunks returned a result with failed entries among its
\* backends, the job ends completed and its stored result is that result.
C29_BackendFailuresComplete ==
    (/\ task.pc = "ended"
     /\ task.index_returned
     /\ \E k \in DOMAIN task.index_result.backends :
           task.index_result.backends[k].status = "failed") =>
        /\ job_store[task.job_id].status = "completed"
        /\ job_store[task.job_id].result = task.index_result

ChunkerRaised ==
    /\ task.pc = "ended"
    /\ task.chunker # "DocumentProcessor"
    /\ task.chunker_calls = 1

\* C31: when the chunker raises, the job ends failed, the record it is left
\* with classifies the failure as a processing error (by its error_type or by
\* the "Processing error" label of its message), and index_chunks was never
\* called.
C31_ProcessingErrorRecorded ==
    ChunkerRaised =>
        /\ job_store[task.job_id].status = "failed"
        /\ \/ job_store[task.job_id].result.error_type
                 \in {"ProcessingError", "processing_error"}
           \/ job_store[task.job_id].result.error
                 = "Processing error: " \o ChunkerError.msg
        /\ task.index_calls = 0

\* The record the outer handler leaves for the exception e.
FailedWith(e) == [status |-> "failed", result |-> TypedErrorResult(e)]

RejectedAsSpecified ==
    \A req \in IngestRequests :
        /\ Errors(req.processor) # <<>> => Answer(req).status_code = 422
        /\ (Errors(req.processor) = <<>> /\ ~req.url /\ req.content # "text") =>
              Answer(req) = [status_code |-> 400, error_type |-> "invalid_request"]

\* The step is a call of the endpoint: it answers with a new job id.
Submits == resp'.job_id = job_ids + 1

TerminalWrites(id) ==
    SelectSeq(StatusesOf(id), LAMBDA s : s \in {"completed", "failed"})

\* C37: no job is written completed or failed more than once, so that its
\* first terminal record is never replaced, and the job of a task that has
\* finished was written so exactly once.
C37_TerminalOnce ==
    /\ \A id \in 1..job_ids : Len(TerminalWrites(id)) <= 1
    /\ task.pc = "ended" => Len(TerminalWrites(task.job_id)) = 1

\* The task has run up to an await and has not finished.
Started == task.pc \in {"fetching", "indexing"}

\* The task has finished and its job is completed or failed.
EndedTerminal ==
    /\ task.pc = "ended"
    /\ job_store[task.job_id].status \in {"completed", "failed"}

\* C33: when every fetch and every index_chunks call returns or raises, a
\* task that has started finishes with its job completed or failed; and a
\* task that has finished never leaves its job pending, processing or
\* indexing.
C33_EndsTerminal ==
    /\ [](task.pc = "ended" => EndedTerminal)
    /\ (Started ~> EndedTerminal)

\* A task that awaited the fetch and index_chunks has finished, its job
\* completed.
C33_Witness ==
    /\ EndedTerminal
    /\ task.fetch_calls = 1
    /\ task.index_returned
    /\ job_store[task.job_id].status = "completed"

(***************************************************************************)
(* Specifications.  Each one constructs every component and then runs the  *)
(* operations of one of them.                                              *)
(***************************************************************************)
\* IndexingService(zep, mem0, qdrant_client, use_qdrant_dev), any configuration.
InitIndex ==
    /\ use_qdrant_dev \in BOOLEAN
    /\ qdrant_client \in BOOLEAN
    /\ ipc = "idle"
    /\ iargs = NoCall
    /\ tstate = [t \in Tasks |-> "none"]
    /\ tresult = [t \in Tasks |-> PyNone]
    /\ calls = [t \in Tasks |-> 0]
    /\ zep_session = NoSession
    /\ iret = NoReturn
    /\ rate = 1
    /\ capacity = 1
    /\ tokens = Scale
    /\ last_refill = 0
    /\ now = 0
    /\ last = NoCallYet
    /\ lock = 0
    /\ tpc = [t \in Threads |-> "idle"]
    /\ treq = [t \in Threads |-> 0]
    /\ tlocal = [t \in Threads |-> 0]
    /\ tret = [t \in Threads |-> NoRet]
    /\ granted_sum = 0
    /\ buckets = [c \in ClientIds |-> NoBucket]
    /\ chk = NoCheck
    /\ streak = [c \in ClientIds |-> 0]
    /\ mw = NoRequest
    /\ lim_lock = 0
    /\ lthr = [t \in Threads |-> NoThread]
    /\ bucket_of = [c \in ClientIds |-> 0]
    /\ objects = <<>>
    /\ idents = <<>>
    /\ processor = DefaultProcessor
    /\ content_length = 0
    /\ start = 0
    /\ chunk_index = 0
    /\ out_chunks = <<>>
    /\ ppc = "idle"
    /\ uuid_seq = 0
    /\ prev_chunks = <<>>
    /\ runs = 0
    /\ ctor = NoCtor
    /\ instance = NoInstance
    /\ job_store = <<>>
    /\ writes = <<>>
    /\ task = NoTask
    /\ resp = NoResponse
    /\ job_ids = 0

\* TokenBucket(rate, capacity) constructed at time 0, any rate and capacity.
InitBucket ==
    /\ use_qdrant_dev = FALSE
    /\ qdrant_client = FALSE
    /\ ipc = "idle"
    /\ iargs = NoCall
    /\ tstate = [t \in Tasks |-> "none"]
    /\ tresult = [t \in Tasks |-> PyNone]
    /\ calls = [t \in Tasks |-> 0]
    /\ zep_session = NoSession
    /\ iret = NoReturn
    /\ rate \in 1..MaxRate
    /\ capacity \in 1..MaxCapacity
    /\ tokens = capacity * Scale
    /\ last_refill = 0
    /\ now = 0
    /\ last = NoCallYet
    /\ lock = 0
    /\ tpc = [t \in Threads |-> "idle"]
    /\ treq = [t \in Threads |-> 0]
    /\ tlocal = [t \in Threads |-> 0]
    /\ tret = [t \in Threads |-> NoRet]
    /\ granted_sum = 0
    /\ buckets = [c \in ClientIds |-> NoBucket]
    /\ chk = NoCheck
    /\ streak = [c \in ClientIds |-> 0]
    /\ mw = NoRequest
    /\ lim_lock = 0
    /\ lthr = [t \in Threads |-> NoThread]
    /\ bucket_of = [c \in ClientIds |-> 0]
    /\ objects = <<>>
    /\ idents = <<>>
    /\ processor = DefaultProcessor
    /\ content_length = 0
    /\ start = 0
    /\ chunk_index = 0
    /\ out_chunks = <<>>
    /\ ppc = "idle"
    /\ uuid_seq = 0
    /\ prev_chunks = <<>>
    /\ runs = 0
    /\ ctor = NoCtor
    /\ instance = NoInstance
    /\ job_store = <<>>
    /\ writes = <<>>
    /\ task = NoTask
    /\ resp = NoResponse
    /\ job_ids = 0

\* DocumentProcessor(chunk_size, chunk_overlap, max_chunks_per_doc) for any
\* parameters the validation accepts.
InitChunker ==
    /\ use_qdrant_dev = FALSE
    /\ qdrant_client = FALSE
    /\ ipc = "idle"
    /\ iargs = NoCall
    /\ tstate = [t \in Tasks |-> "none"]
    /\ tresult = [t \in Tasks |-> PyNone]
    /\ calls = [t \in Tasks |-> 0]
    /\ zep_session = NoSession
    /\ iret = NoReturn
    /\ rate = 1
    /\ capacity = 1
    /\ tokens = Scale
    /\ last_refill = 0
    /\ now = 0
    /\ last = NoCallYet
    /\ lock = 0
    /\ tpc = [t \in Threads |-> "idle"]
    /\ treq = [t \in Threads |-> 0]
    /\ tlocal = [t \in Threads |-> 0]
    /\ tret = [t \in Threads |-> NoRet]
    /\ granted_sum = 0
    /\ buckets = [c \in ClientIds |-> NoBucket]
    /\ chk = NoCheck
    /\ streak = [c \in ClientIds |-> 0]
    /\ mw = NoRequest
    /\ lim_lock = 0
    /\ lthr = [t \in Threads |-> NoThread]
    /\ bucket_of = [c \in ClientIds |-> 0]
    /\ objects = <<>>
    /\ idents = <<>>
    /\ processor \in Processors
    /\ content_length = 0
    /\ start = 0
    /\ chunk_index = 0
    /\ out_chunks = <<>>
    /\ ppc = "idle"
    /\ uuid_seq = 0
    /\ prev_chunks = <<>>
    /\ runs = 0
    /\ ctor = NoCtor
    /\ instance = NoInstance
    /\ job_store = <<>>
    /\ writes = <<>>
    /\ task = NoTask
    /\ resp = NoResponse
    /\ job_ids = 0

\* RateLimiter(config) with any bucket_size, a tokens_per_second that makes
\* the wait for a token a fraction of a second, and no client seen yet.
InitLimiter ==
    /\ use_qdrant_dev = FALSE
    /\ qdrant_client = FALSE
    /\ ipc = "idle"
    /\ iargs = NoCall
    /\ tstate = [t \in Tasks |-> "none"]
    /\ tresult = [t \in Tasks |-> PyNone]
    /\ calls = [t \in Tasks |-> 0]
    /\ zep_session = NoSession
    /\ iret = NoReturn
    /\ rate = MaxRate + 1
    /\ capacity \in 1..MaxLimCapacity
    /\ tokens = capacity * Scale
    /\ last_refill = 0
    /\ now = 0
    /\ last = NoCallYet
    /\ lock = 0
    /\ tpc = [t \in Threads |-> "idle"]
    /\ treq = [t \in Threads |-> 0]
    /\ tlocal = [t \in Threads |-> 0]
    /\ tret = [t \in Threads |-> NoRet]
    /\ granted_sum = 0
    /\ buckets = [c \in ClientIds |-> NoBucket]
    /\ chk = NoCheck
    /\ streak = [c \in ClientIds |-> 0]
    /\ mw = NoRequest
    /\ lim_lock = 0
    /\ lthr = [t \in Threads |-> NoThread]
    /\ bucket_of = [c \in ClientIds |-> 0]
    /\ objects = <<>>
    /\ idents = <<>>
    /\ processor = DefaultProcessor
    /\ content_length = 0
    /\ start = 0
    /\ chunk_index = 0
    /\ out_chunks = <<>>
    /\ ppc = "idle"
    /\ uuid_seq = 0
    /\ prev_chunks = <<>>
    /\ runs = 0
    /\ ctor = NoCtor
    /\ instance = NoInstance
    /\ job_store = <<>>
    /\ writes = <<>>
    /\ task = NoTask
    /\ resp = NoResponse
    /\ job_ids = 0

SpecIndex == InitIndex /\ [][NextIndex]_vars
\* One caller at a time on a bucket, the clock advancing between calls.
SpecBucket == InitBucket /\ [][NextBucket]_vars
\* Several threads inside consume on one full bucket, the clock standing still.
SpecConc == InitBucket /\ [][NextConc]_vars
\* A RateLimiter built from any configuration, called directly and through
\* the middleware, the clock advancing between calls.
SpecLimiter == InitLimiter /\ [][NextLimiter]_vars
\* Several threads inside check_rate_limit on one limiter, no reset, the
\* clock standing still.
SpecLimConc == InitLimiter /\ [][NextLimConc]_vars
\* The same callers while reset is called as well.
SpecLimReset == InitLimiter /\ [][NextLimReset]_vars
\* The middleware's client identification applied to any requests.
SpecIdent == InitLimiter /\ [][NextIdent]_vars
\* process_document called on documents of any length, one call at a time.
SpecDoc == InitChunker /\ [][NextDoc]_vars

\* process_document is synchronous code: a call that has begun keeps running
\* its loop until it returns.
\* Constructions of ProcessingParameters and of DocumentProcessor.
SpecParams == InitIndex /\ [][NextParams]_vars

\* Submissions and direct calls of the background task, one job at a time,
\* with an IndexingService of any configuration.
SpecJob == InitIndex /\ [][NextJob]_vars

\* get_indexing_service() under the default settings: an IndexingService
\* without the development Qdrant backend; no job yet.
InitIngest ==
    /\ use_qdrant_dev = FALSE
    /\ qdrant_client = FALSE
    /\ ipc = "idle"
    /\ iargs = NoCall
    /\ tstate = [t \in Tasks |-> "none"]
    /\ tresult = [t \in Tasks |-> PyNone]
    /\ calls = [t \in Tasks |-> 0]
    /\ zep_session = NoSession
    /\ iret = NoReturn
    /\ rate = 1
    /\ capacity = 1
    /\ tokens = Scale
    /\ last_refill = 0
    /\ now = 0
    /\ last = NoCallYet
    /\ lock = 0
    /\ tpc = [t \in Threads |-> "idle"]
    /\ treq = [t \in Threads |-> 0]
    /\ tlocal = [t \in Threads |-> 0]
    /\ tret = [t \in Threads |-> NoRet]
    /\ granted_sum = 0
    /\ buckets = [c \in ClientIds |-> NoBucket]
    /\ chk = NoCheck
    /\ streak = [c \in ClientIds |-> 0]
    /\ mw = NoRequest
    /\ lim_lock = 0
    /\ lthr = [t \in Threads |-> NoThread]
    /\ bucket_of = [c \in ClientIds |-> 0]
    /\ objects = <<>>
    /\ idents = <<>>
    /\ processor = DefaultProcessor
    /\ content_length = 0
    /\ start = 0
    /\ chunk_index = 0
    /\ out_chunks = <<>>
    /\ ppc = "idle"
    /\ uuid_seq = 0
    /\ prev_chunks = <<>>
    /\ runs = 0
    /\ ctor = NoCtor
    /\ instance = NoInstance
    /\ job_store = <<>>
    /\ writes = <<>>
    /\ task = NoTask
    /\ resp = NoResponse
    /\ job_ids = 0

SpecDocFair ==
    InitChunker /\ [][NextDoc]_vars /\ WF_vars(LoopAppend \/ LoopBreak \/ LoopExit)

\* A ProcessingParameters object under construction, assignment and release.
SpecAssign == InitIngest /\ [][NextAssign]_vars

\* Submissions and direct calls with the service of the endpoint.
SpecIngest == InitIngest /\ [][NextJob]_vars

\* The next step of a task that is scheduled or waits in an await: one of
\* them at most is enabled in a state.
TaskStep ==
    \/ TaskStart
    \/ (\E n \in JobLengths : FetchReturn(n)) \/ FetchRaise
    \/ (\E r \in JobGathered : IndexReturnToTask(r)) \/ IndexRaise

\* The jobs when the event loop runs every scheduled task and every awaited
\* fetch and index_chunks call returns or raises.
SpecJobFair == InitIngest /\ [][NextJob]_vars /\ WF_vars(TaskStep)
====
